---------------------------- MODULE Spec2Model ----------------------------
(***************************************************************************)
(* Risk & Insight Engine of SafeBalance (services/agent_service.py,        *)
(* services/ml_service.py, services/scheduler.py and the routes that call  *)
(* them), as a state machine over the MongoDB collections.                 *)
(*                                                                         *)
(* Units.  Money is counted in thousandths of a rupee, so that round(x, 2) *)
(* has something to round.  Time is counted in hours since                 *)
(* 2024-01-01T00:00Z; an isoformat() timestamp of a UTC-aware datetime is  *)
(* modelled by its instant, because the lexicographic order of those       *)
(* strings is the order of the instants.  The uncertainty of a forecast is *)
(* counted in thousandths and a risk probability in 1/100000, which makes  *)
(* 0.85 + u * 0.15 the integer 85000 + 15 * U.                             *)
(***************************************************************************)
EXTENDS Integers, Sequences, FiniteSets, TLC

VARIABLES
    now,            \* datetime.now(timezone.utc), in hours
    accounts,       \* virtual_accounts_collection: user_id -> account or NoAccount
    payments,       \* scheduled_payments_collection, in natural (insertion) order
    transactions,   \* transactions_collection, in insertion order
    insights,       \* insights_collection, in insertion order
    model_loaded,   \* ml_service.model_loaded
    questionnaires, \* questionnaires_collection: user_id -> questionnaire or NoQuestionnaire
    label_encoder,  \* ml_service.label_encoder.classes_, in the encoder's order
    ret,            \* what the last completed call returned (or raised)
    jobs,           \* the scheduler thread: alive, and each job's next run
    th              \* per thread: the handler it is in and that handler's locals

vars == <<now, accounts, payments, transactions, insights, model_loaded, questionnaires,
          label_encoder, ret, jobs, th>>

----------------------------------------------------------------------------
(* Bounds of the model *)

\* scheduled payments of one user in the buffer-calculator specification
MaxPays == 2
\* clock ticks (of 13 hours) a behaviour may take
MaxTicks == 2
\* documents the insights collection may hold
MaxInsights == 2
\* documents the transactions collection may hold
MaxTx == 1
\* deposits of one account in the last 30 days, where the collection starts
\* with a history
MaxHistory == 32

Users == {"u1", "u2"}

NoAccount == [exists |-> FALSE]

Account(balance, buffer) == [exists |-> TRUE, balance |-> balance, buffer |-> buffer]

----------------------------------------------------------------------------
(* Calendar: datetime's date arithmetic *)

IsLeap(y) == (y % 4 = 0 /\ y % 100 # 0) \/ y % 400 = 0

DaysInMonth(y, m) ==
    IF m = 2 THEN (IF IsLeap(y) THEN 29 ELSE 28)
    ELSE IF m \in {4, 6, 9, 11} THEN 30 ELSE 31

Date(y, m, d) == [year |-> y, month |-> m, day |-> d]

\* datetime.fromisoformat accepts the text of a date only when it is a date
ValidDate(dt) ==
    /\ dt.year \in 1..9999
    /\ dt.month \in 1..12
    /\ dt.day \in 1..DaysInMonth(dt.year, dt.month)

RECURSIVE DateFrom(_, _, _)
DateFrom(y, m, n) ==
    IF n < DaysInMonth(y, m) THEN Date(y, m, n + 1)
    ELSE IF m = 12 THEN DateFrom(y + 1, 1, n - DaysInMonth(y, m))
    ELSE DateFrom(y, m + 1, n - DaysInMonth(y, m))

\* the date n days after 2024-01-01
DateOfDay(n) == DateFrom(2024, 1, n)

RECURSIVE DaysBefore(_, _, _)
DaysBefore(y, m, acc) ==
    IF y = 2024 /\ m = 1 THEN acc
    ELSE IF m = 1 THEN DaysBefore(y - 1, 12, acc + DaysInMonth(y - 1, 12))
    ELSE DaysBefore(y, m - 1, acc + DaysInMonth(y, m - 1))

\* days from 2024-01-01 to a valid date of 2024 or later
DayNumber(dt) == DaysBefore(dt.year, dt.month, 0) + dt.day - 1

\* date.weekday(): Monday is 0; 2024-01-01 was a Monday
WeekdayOfDay(n) == n % 7

Today(t) == DateOfDay(t \div 24)

HourOfDate(dt) == 24 * DayNumber(dt)

----------------------------------------------------------------------------
(* AgentService.calculate_weekly_buffer *)

Raise(e) == [ok |-> FALSE, raised |-> e]

Return(v) == [ok |-> TRUE, value |-> v]

\* round(x, 2) of an amount in thousandths (ties to even)
Round2(x) ==
    LET q == x \div 10
        r == x % 10
    IN  IF r < 5 THEN 10 * q
        ELSE IF r > 5 THEN 10 * (q + 1)
        ELSE IF q % 2 = 0 THEN 10 * q ELSE 10 * (q + 1)

\* variant of the monthly branch that leaves out a payment due today
MonthlyDueOffByOne(first_date, today) ==
    LET days_until_payment == (first_date.day - today.day) % 30
    IN  1 <= days_until_payment /\ days_until_payment <= 7

\* the monthly branch: (first_date.day - today.day) % 30 in [0, 7]
MonthlyDue(first_date, today) ==
    LET days_until_payment == (first_date.day - today.day) % 30
    IN  0 <= days_until_payment /\ days_until_payment <= 7

\* the annual branch.  first_date is naive (it is parsed from YYYY-MM-DD) and
\* today is aware: replace(year=...) raises ValueError for 29 February in a
\* year that is not leap, and otherwise the subtraction raises TypeError.
AnnualStep(first_date, today) ==
    IF first_date.month = 2 /\ first_date.day = 29 /\ ~IsLeap(today.year)
    THEN Raise("ValueError")
    ELSE Raise("TypeError")

RECURSIVE BufferLoop(_, _, _)
BufferLoop(ps, today, weekly_expenses) ==
    IF ps = <<>> THEN Return(Round2(weekly_expenses))
    ELSE
      LET payment == Head(ps)
          occurrence == payment.occurrence
          amount == payment.amount
      IN  IF ~ValidDate(payment.firstdate) THEN Raise("ValueError")
          ELSE IF occurrence = "weekly"
               THEN BufferLoop(Tail(ps), today, weekly_expenses + amount)
          ELSE IF occurrence = "monthly"
               THEN BufferLoop(Tail(ps), today,
                               IF MonthlyDue(payment.firstdate, today)
                               THEN weekly_expenses + amount
                               ELSE weekly_expenses)
          ELSE IF occurrence = "annual"
               THEN AnnualStep(payment.firstdate, today)
          ELSE BufferLoop(Tail(ps), today, weekly_expenses)

\* scheduled_payments_collection.find({"user_id": user_id})
PaymentsOf(user_id) == SelectSeq(payments, LAMBDA p : p.user_id = user_id)

calculate_weekly_buffer(user_id) == BufferLoop(PaymentsOf(user_id), Today(now), 0)

----------------------------------------------------------------------------
(* MLPredictionService.predict_weekly_income *)

Forecast(total, avg, p5, p50, p95, u, available, error) ==
    [predicted_weekly_total |-> total, predicted_daily_avg |-> avg,
     confidence_5th |-> p5, confidence_50th |-> p50, confidence_95th |-> p95,
     uncertainty |-> u, model_available |-> available, error |-> error]

\* the fixed defaults: 3000 / 428 / 2100 / 3000 / 3900, uncertainty 0.3
DefaultForecast(error) ==
    Forecast(3000000, 428000, 2100000, 3000000, 3900000, 300, FALSE, error)

RECURSIVE SumAmounts(_)
SumAmounts(txs) == IF txs = <<>> THEN 0 ELSE Head(txs).amount + SumAmounts(Tail(txs))

\* transactions_collection.find({acct_id, type: deposit, datetime >= since})
RecentDeposits(acct_id, since) ==
    SelectSeq(transactions,
              LAMBDA t : t.acct_id = acct_id /\ t.type = "deposit" /\ t.datetime >= since)

\* variant of the fallback that never reads the deposit history
FallbackForecastDefaultOnly(user_id) == DefaultForecast("")

\* the branch taken when the model is not loaded.  The deposit amounts of the
\* model are multiples of 60 rupees, for which mean, * 7, * 0.7 and * 1.3 are exact.
FallbackForecast(user_id) ==
    LET thirty_days_ago == now - 24 * 30
        account == accounts[user_id]
        recent_txs == IF account.exists THEN RecentDeposits(user_id, thirty_days_ago)
                      ELSE <<>>
    IN  IF recent_txs # <<>>
        THEN LET daily_avg == SumAmounts(recent_txs) \div Len(recent_txs)
                 weekly_total == daily_avg * 7
             IN  Forecast(weekly_total, daily_avg, (weekly_total * 7) \div 10,
                          weekly_total, (weekly_total * 13) \div 10, 300, FALSE, "")
        ELSE DefaultForecast("")

(* MLPredictionService.get_user_archetype and prepare_features *)

\* A text is the sequence of its characters.

Archetypes ==
    {"food_delivery_rider", "cab_driver", "freelancer", "part_time_laborer", "shop_assistant"}

NoQuestionnaire == [exists |-> FALSE]

\* a stored questionnaire: whether it has the key a1, and the answer under it
Questionnaire(has_a1, a1) == [exists |-> TRUE, has_a1 |-> has_a1, a1 |-> a1]

UpperCase ==
    <<"A", "B", "C", "D", "E", "F", "G", "H", "I", "J", "K", "L", "M",
      "N", "O", "P", "Q", "R", "S", "T", "U", "V", "W", "X", "Y", "Z">>

LowerCase ==
    <<"a", "b", "c", "d", "e", "f", "g", "h", "i", "j", "k", "l", "m",
      "n", "o", "p", "q", "r", "s", "t", "u", "v", "w", "x", "y", "z">>

\* str.lower()
Lower(text) ==
    [i \in DOMAIN text |->
        IF \E k \in DOMAIN UpperCase : UpperCase[k] = text[i]
        THEN LowerCase[CHOOSE k \in DOMAIN UpperCase : UpperCase[k] = text[i]]
        ELSE text[i]]

\* word in text
In(word, text) ==
    \E i \in 1..(Len(text) - Len(word) + 1) : SubSeq(text, i, i + Len(word) - 1) = word

\* the keywords of the chain
Keyword ==
    [ delivery |-> <<"d", "e", "l", "i", "v", "e", "r", "y">>,
       swiggy |-> <<"s", "w", "i", "g", "g", "y">>,
       zomato |-> <<"z", "o", "m", "a", "t", "o">>,
       cab |-> <<"c", "a", "b">>,
       uber |-> <<"u", "b", "e", "r">>,
       ola |-> <<"o", "l", "a">>,
       freelanc |-> <<"f", "r", "e", "e", "l", "a", "n", "c">>,
       design |-> <<"d", "e", "s", "i", "g", "n">>,
       labor |-> <<"l", "a", "b", "o", "r">>,
       construction |-> <<"c", "o", "n", "s", "t", "r", "u", "c", "t", "i", "o", "n">>,
       shop |-> <<"s", "h", "o", "p">>,
       retail |-> <<"r", "e", "t", "a", "i", "l">> ]

\* variant of the chain that tests the cab keywords first
ArchetypeOfCabFirst(income_source) ==
    IF In(Keyword.cab, income_source) \/ In(Keyword.uber, income_source)
          \/ In(Keyword.ola, income_source)
    THEN "cab_driver"
    ELSE IF In(Keyword.delivery, income_source) \/ In(Keyword.swiggy, income_source)
          \/ In(Keyword.zomato, income_source)
    THEN "food_delivery_rider"
    ELSE "food_delivery_rider"

\* the if / elif chain on the lower-cased first answer; "none" when no branch
\* returns
ArchetypeOf(income_source) ==
    IF In(Keyword.delivery, income_source) \/ In(Keyword.swiggy, income_source)
          \/ In(Keyword.zomato, income_source)
    THEN "food_delivery_rider"
    ELSE IF In(Keyword.cab, income_source) \/ In(Keyword.uber, income_source)
          \/ In(Keyword.ola, income_source)
    THEN "cab_driver"
    ELSE IF In(Keyword.freelanc, income_source) \/ In(Keyword.design, income_source)
    THEN "freelancer"
    ELSE IF In(Keyword.labor, income_source) \/ In(Keyword.construction, income_source)
    THEN "part_time_laborer"
    ELSE IF In(Keyword.shop, income_source) \/ In(Keyword.retail, income_source)
    THEN "shop_assistant"
    ELSE "none"

\* MLPredictionService.get_user_archetype
get_user_archetype(user_id) ==
    LET questionnaire == questionnaires[user_id]
    IN  IF questionnaire.exists /\ questionnaire.has_a1 /\ questionnaire.a1 # <<>>
        THEN LET archetype == ArchetypeOf(Lower(questionnaire.a1))
             IN  IF archetype # "none" THEN archetype ELSE "food_delivery_rider"
        ELSE "food_delivery_rider"

\* list(self.label_encoder.classes_).index(archetype), counted from 0
IndexOf(classes, archetype) ==
    (CHOOSE i \in DOMAIN classes :
        classes[i] = archetype /\ \A j \in 1..(i - 1) : classes[j] # archetype) - 1

RECURSIVE SumSeq(_)
SumSeq(xs) == IF xs = <<>> THEN 0 ELSE Head(xs) + SumSeq(Tail(xs))

RECURSIVE SumSquares(_)
SumSquares(xs) == IF xs = <<>> THEN 0 ELSE Head(xs) * Head(xs) + SumSquares(Tail(xs))

RECURSIVE MaxSeq(_)
MaxSeq(xs) ==
    IF Len(xs) = 1 THEN Head(xs)
    ELSE IF Head(xs) >= MaxSeq(Tail(xs)) THEN Head(xs) ELSE MaxSeq(Tail(xs))

RECURSIVE InsertSorted(_, _)
InsertSorted(x, xs) ==
    IF xs = <<>> THEN <<x>>
    ELSE IF x <= Head(xs) THEN <<x>> \o xs
    ELSE <<Head(xs)>> \o InsertSorted(x, Tail(xs))

\* the ascending order np.percentile works on
RECURSIVE Sorted(_)
Sorted(xs) == IF xs = <<>> THEN <<>> ELSE InsertSorted(Head(xs), Sorted(Tail(xs)))

\* np.percentile(tree_predictions, q) * 7, linear interpolation between the two
\* closest ranks; predictions in rupees, result in thousandths
Percentile7(tree_predictions, q) ==
    LET a == Sorted(tree_predictions)
        n == Len(a)
        lo == (q * (n - 1)) \div 100 + 1
        f == (q * (n - 1)) % 100
        hi == IF lo < n THEN lo + 1 ELSE lo
    IN  70 * (a[lo] * (100 - f) + a[hi] * f)

\* the largest r with r * r <= v, for v <= bound * bound
ISqrt(v, bound) == CHOOSE r \in 0..bound : r * r <= v /\ v < (r + 1) * (r + 1)

\* np.std(tree_predictions) / (np.mean(tree_predictions) + 1e-6), in thousandths:
\* std is sqrt(n * sum of squares - (sum)^2) / n and mean is sum / n
Uncertainty(tree_predictions) ==
    LET n == Len(tree_predictions)
        total == SumSeq(tree_predictions)
        d == n * SumSquares(tree_predictions) - total * total
    IN  IF total = 0 THEN 0
        ELSE (1000 * ISqrt(d, n * MaxSeq(tree_predictions)) + total \div 2) \div total

RECURSIVE MinSeq(_)
MinSeq(xs) ==
    IF Len(xs) = 1 THEN Head(xs)
    ELSE IF Head(xs) <= MinSeq(Tail(xs)) THEN Head(xs) ELSE MinSeq(Tail(xs))

RECURSIVE InsertByDatetime(_, _)
InsertByDatetime(t, ts) ==
    IF ts = <<>> THEN <<t>>
    ELSE IF t.datetime >= Head(ts).datetime THEN <<t>> \o ts
    ELSE <<Head(ts)>> \o InsertByDatetime(t, Tail(ts))

\* .sort("datetime", -1): the most recent first
RECURSIVE SortedByDatetime(_)
SortedByDatetime(ts) ==
    IF ts = <<>> THEN <<>> ELSE InsertByDatetime(Head(ts), SortedByDatetime(Tail(ts)))

\* xs[-n:]: the last n entries of the list
SliceLast(xs, n) == IF Len(xs) <= n THEN xs ELSE SubSeq(xs, Len(xs) - n + 1, Len(xs))

\* xs[:n]
Slice(xs, n) == IF Len(xs) <= n THEN xs ELSE SubSeq(xs, 1, n)

\* np.mean, in thousandths, rounded down
Mean(xs) == SumSeq(xs) \div Len(xs)

\* np.std, in thousandths, taken over the whole rupees of the amounts:
\* sqrt(n * sum of squares - (sum)^2) / n
Std(xs) ==
    LET n == Len(xs)
        rupees == [i \in 1..n |-> xs[i] \div 1000]
        d == n * SumSquares(rupees) - SumSeq(rupees) * SumSeq(rupees)
        largest == MaxSeq([i \in 1..n |-> IF rupees[i] < 0 THEN 0 - rupees[i]
                                          ELSE rupees[i]])
    IN  (1000 * ISqrt(d, 2 * n * largest)) \div n

\* the rolling statistics of prepare_features over the transactions it was
\* given or has fetched
RollingFeatures(txs) ==
    IF Len(txs) > 0
    THEN LET last == SliceLast(txs, 30)
             amounts == [i \in 1..Len(last) |-> last[i].amount]
             income_lag_1 == amounts[1]
             recent_7 == Slice(amounts, 7)
             recent_14 == Slice(amounts, 14)
             income_rolling_mean_7 == Mean(recent_7)
             income_rolling_std_7 == IF Len(recent_7) > 1 THEN Std(recent_7) ELSE 0
         IN  [income_lag_1 |-> income_lag_1,
              income_lag_3 |-> IF Len(amounts) > 2 THEN amounts[3] ELSE income_lag_1,
              income_lag_7 |-> IF Len(amounts) > 6 THEN amounts[7] ELSE income_lag_1,
              income_rolling_mean_7 |-> income_rolling_mean_7,
              income_rolling_std_7 |-> income_rolling_std_7,
              income_rolling_max_7 |-> MaxSeq(recent_7),
              income_rolling_min_7 |-> MinSeq(recent_7),
              income_rolling_mean_14 |-> Mean(recent_14),
              income_rolling_std_14 |-> IF Len(recent_14) > 1 THEN Std(recent_14)
                                        ELSE income_rolling_std_7,
              income_cv_7 |-> IF income_rolling_mean_7 = 0 THEN 0
                              ELSE (1000 * income_rolling_std_7) \div income_rolling_mean_7,
              zero_income_count_7 |->
                  Cardinality({i \in DOMAIN recent_7 : recent_7[i] = 0})]
    ELSE [income_lag_1 |-> 0, income_lag_3 |-> 0, income_lag_7 |-> 0,
          income_rolling_mean_7 |-> 0, income_rolling_std_7 |-> 0,
          income_rolling_max_7 |-> 0, income_rolling_min_7 |-> 0,
          income_rolling_mean_14 |-> 0, income_rolling_std_14 |-> 0,
          income_cv_7 |-> 0, zero_income_count_7 |-> 0]

\* the features of the day (week_of_year, which nothing here reads, is left out)
CalendarFeatures(t) ==
    [day_of_week |-> WeekdayOfDay(t \div 24),
     month |-> Today(t).month,
     is_weekend |-> IF WeekdayOfDay(t \div 24) >= 5 THEN 1 ELSE 0,
     is_festival |-> 0,
     is_monsoon |-> IF Today(t).month \in {6, 7, 8, 9} THEN 1 ELSE 0,
     is_month_start |-> IF Today(t).day <= 7 THEN 1 ELSE 0,
     is_month_end |-> IF Today(t).day >= 24 THEN 1 ELSE 0]

\* MLPredictionService.prepare_features(user_id, None): index() raises
\* ValueError for an archetype that is not a class of the encoder, and
\* len(transactions) raises TypeError when no account was found and
\* transactions is still None
prepare_features(user_id) ==
    LET thirty_days_ago == now - 24 * 30
        account == accounts[user_id]
        archetype == get_user_archetype(user_id)
    IN  IF ~\E i \in DOMAIN label_encoder : label_encoder[i] = archetype
        THEN Raise("ValueError")
        ELSE IF ~account.exists
        THEN Raise("TypeError")
        ELSE Return([archetype_encoded |-> IndexOf(label_encoder, archetype),
                     calendar |-> CalendarFeatures(now),
                     income |-> RollingFeatures(
                                   SortedByDatetime(RecentDeposits(user_id,
                                                                   thirty_days_ago)))])

\* model mode after inference: mean, percentiles * 7 and std / mean of the
\* per-tree daily predictions (whole, non-negative rupees), each rounded
ModelForecast(tree_predictions) ==
    LET n == Len(tree_predictions)
        total == SumSeq(tree_predictions)
    IN  Forecast(Round2((7000 * total) \div n), Round2((1000 * total) \div n),
                 Round2(Percentile7(tree_predictions, 5)),
                 Round2(Percentile7(tree_predictions, 50)),
                 Round2(Percentile7(tree_predictions, 95)),
                 Uncertainty(tree_predictions), TRUE, "")

\* per-tree predictions of the ensembles of the model: two equal trees, two far
\* apart, nine trees at 0 with one at 3000, two close
Ensembles ==
    { <<400, 400>>, <<600, 0>>, <<0, 0, 0, 3000, 0, 0, 0, 0, 0, 0>>, <<180, 120>> }

\* What the loaded ensemble returns: the forecasts of the ensembles above, and
\* the forecast of the design's scenario, given by its result
ModelForecasts ==
    { ModelForecast(tree_predictions) : tree_predictions \in Ensembles }
        \cup { Forecast(2600000, 371430, 1500000, 2500000, 4000000, 200, TRUE, "") }

\* variant of the except branch that drops the error detail
CaughtUnannotated(e) == DefaultForecast("")

\* the except branch: the fixed defaults annotated with the error
Caught(e) == DefaultForecast(e)

\* every result predict_weekly_income(user_id) can return: the fallback when the
\* model is not loaded; otherwise the ensemble's forecast, or the defaults
\* annotated with the error when feature preparation or inference raises
predict_weekly_income(user_id) ==
    IF ~model_loaded THEN {FallbackForecast(user_id)}
    ELSE LET features == prepare_features(user_id)
         IN  IF ~features.ok THEN {Caught(features.raised)}
             ELSE ModelForecasts \cup {Caught("exception")}

----------------------------------------------------------------------------
(* AgentService.predict_payment_risk: the classification *)

Min(a, b) == IF a <= b THEN a ELSE b

\* round(p, 2) of a probability in 1/100000
RoundP2(p) ==
    LET q == p \div 1000
        r == p % 1000
    IN  IF r < 500 THEN 1000 * q
        ELSE IF r > 500 THEN 1000 * (q + 1)
        ELSE IF q % 2 = 0 THEN 1000 * q ELSE 1000 * (q + 1)

\* variant of the chain that tests the median before the pessimistic bound
RiskTierMedianFirst(current_balance, weekly_expenses, income_prediction) ==
    LET projected_balance_pessimistic ==
            current_balance + income_prediction.confidence_5th - weekly_expenses
        projected_balance_median ==
            current_balance + income_prediction.confidence_50th - weekly_expenses
        uncertainty == income_prediction.uncertainty
    IN  IF projected_balance_median < 0
        THEN [risk_level |-> "high", risk_probability |-> 60000 + uncertainty * 25]
        ELSE IF projected_balance_pessimistic < 0
        THEN [risk_level |-> "critical", risk_probability |-> 85000 + uncertainty * 15]
        ELSE [risk_level |-> "minimal", risk_probability |-> 5000 + uncertainty * 10]

\* tier and uncapped probability: the if / elif chain
RiskTier(current_balance, weekly_expenses, income_prediction) ==
    LET projected_balance_pessimistic ==
            current_balance + income_prediction.confidence_5th - weekly_expenses
        projected_balance_median ==
            current_balance + income_prediction.confidence_50th - weekly_expenses
        projected_balance_optimistic ==
            current_balance + income_prediction.confidence_95th - weekly_expenses
        uncertainty == income_prediction.uncertainty
    IN  IF projected_balance_pessimistic < 0
        THEN [risk_level |-> "critical", risk_probability |-> 85000 + uncertainty * 15]
        ELSE IF projected_balance_median < 0
        THEN [risk_level |-> "high", risk_probability |-> 60000 + uncertainty * 25]
        ELSE IF 2 * projected_balance_median < weekly_expenses
        THEN [risk_level |-> "medium", risk_probability |-> 35000 + uncertainty * 25]
        ELSE IF projected_balance_optimistic < weekly_expenses
        THEN [risk_level |-> "low", risk_probability |-> 15000 + uncertainty * 20]
        ELSE [risk_level |-> "minimal", risk_probability |-> 5000 + uncertainty * 10]

\* variant without the cap
CapUncapped(risk_probability) == risk_probability

\* risk_probability = min(0.99, risk_probability)
Cap(risk_probability) == Min(99000, risk_probability)

\* the result dictionary, and beside it the unrounded probability the
\* threshold test reads
RiskResult(user_id, current_balance, weekly_expenses, income_prediction) ==
    LET tier == RiskTier(current_balance, weekly_expenses, income_prediction)
        risk_probability == Cap(tier.risk_probability)
    IN  [user_id |-> user_id,
         current_balance |-> current_balance,
         weekly_expenses |-> weekly_expenses,
         predicted_income_range |->
            [pessimistic |-> income_prediction.confidence_5th,
             median |-> income_prediction.confidence_50th,
             optimistic |-> income_prediction.confidence_95th],
         projected_balance_range |->
            [pessimistic |-> Round2(current_balance + income_prediction.confidence_5th
                                    - weekly_expenses),
             median |-> Round2(current_balance + income_prediction.confidence_50th
                               - weekly_expenses),
             optimistic |-> Round2(current_balance + income_prediction.confidence_95th
                                   - weekly_expenses)],
         risk_probability |-> RoundP2(risk_probability),
         risk_level |-> tier.risk_level,
         model_uncertainty |-> income_prediction.uncertainty,
         model_available |-> income_prediction.model_available,
         unrounded |-> risk_probability]

----------------------------------------------------------------------------
(* The insights collection *)

\* variant in which an insight is created as read
InsightAlreadyRead(user_id, type, priority, message, created_at) ==
    [user_id |-> user_id, type |-> type, priority |-> priority,
     message |-> message, read |-> TRUE, created_at |-> created_at]

\* an insight document as the engine inserts it (title and action_suggestion
\* are left out: nothing reads them)
Insight(user_id, type, priority, message, created_at) ==
    [user_id |-> user_id, type |-> type, priority |-> priority,
     message |-> message, read |-> FALSE, created_at |-> created_at]

\* variant with a window of twelve hours
RecentCutoffHalfDay(t) == t - 12

\* the cutoff of the 24-hour window: now - timedelta(hours=24)
RecentCutoff(t) == t - 24

\* variant whose query leaves the user out
HasRecentAnyUser(ins, user_id, type, recent_cutoff) ==
    \E i \in DOMAIN ins :
        /\ ins[i].type = type
        /\ ins[i].created_at >= recent_cutoff

\* variant whose query skips the insights that were read
HasRecentUnread(ins, user_id, type, recent_cutoff) ==
    \E i \in DOMAIN ins :
        /\ ins[i].user_id = user_id
        /\ ins[i].type = type
        /\ ins[i].created_at >= recent_cutoff
        /\ ~ins[i].read

\* insights_collection.find_one({user_id, type, created_at: {$gte: cutoff}}) is not None
HasRecent(ins, user_id, type, recent_cutoff) ==
    \E i \in DOMAIN ins :
        /\ ins[i].user_id = user_id
        /\ ins[i].type = type
        /\ ins[i].created_at >= recent_cutoff

\* AgentService._generate_risk_insight: the insights collection afterwards
generate_risk_insight(ins, user_id, risk_data, t) ==
    LET risk_level == risk_data.risk_level
        recent_cutoff == RecentCutoff(t)
        priority == IF risk_level = "critical" THEN "critical"
                    ELSE IF risk_level = "high" THEN "high"
                    ELSE "medium"
    IN  IF HasRecent(ins, user_id, "income_volatility_alert", recent_cutoff)
        THEN ins
        ELSE Append(ins, Insight(user_id, "income_volatility_alert", priority, <<>>, t))

\* variant with a strict threshold
RiskAboveThresholdStrict(risk_probability) == risk_probability > 35000

\* the threshold test of predict_payment_risk: risk_probability >= 0.35
RiskAboveThreshold(risk_probability) == risk_probability >= 35000

\* variant in which a balance equal to the buffer is below it
BreachPriorityInclusive(balance, buffer) ==
    IF 2 * balance < buffer THEN "critical"
    ELSE IF balance <= buffer THEN "high"
    ELSE IF 2 * balance < 3 * buffer THEN "medium"
    ELSE "none"

\* the risk levels of check_balance_risk
BreachPriority(balance, buffer) ==
    IF 2 * balance < buffer THEN "critical"
    ELSE IF balance < buffer THEN "high"
    ELSE IF 2 * balance < 3 * buffer THEN "medium"
    ELSE "none"

\* AgentService.check_balance_risk: the insights collection afterwards
check_balance_risk(acc, ins, user_id, t) ==
    LET account == acc[user_id]
        recent_cutoff == RecentCutoff(t)
    IN  IF ~account.exists THEN ins
        ELSE IF HasRecent(ins, user_id, "buffer_breach", recent_cutoff) THEN ins
        ELSE IF BreachPriority(account.balance, account.buffer) = "none" THEN ins
        ELSE Append(ins, Insight(user_id, "buffer_breach",
                                 BreachPriority(account.balance, account.buffer), <<>>, t))

\* AgentService.update_buffer_for_user: the accounts afterwards and the result;
\* modified_count counts the documents the $set changed
update_buffer_for_user(acc, user_id) ==
    LET new_buffer == calculate_weekly_buffer(user_id)
        account == acc[user_id]
    IN  IF ~new_buffer.ok THEN [ok |-> FALSE, raised |-> new_buffer.raised, accounts |-> acc]
        ELSE [ok |-> TRUE,
              accounts |-> IF account.exists
                           THEN [acc EXCEPT ![user_id].buffer = new_buffer.value]
                           ELSE acc,
              value |-> [user_id |-> user_id,
                         new_buffer |-> new_buffer.value,
                         updated |-> account.exists /\ account.buffer # new_buffer.value]]

\* the message of a payment reminder, as the words of
\* "Your {particulars} payment of {amount} is due in {days_until} day(s)."
ReminderMessage(payment, days_until) ==
    <<"Your">> \o payment.particulars
        \o <<"payment", "of", ToString(payment.amount), "is", "due", "in",
             ToString(days_until), "day(s).">>

\* the label read as a regular expression, word by word: the parentheses of
\* "(car)" form a group, which matches the text "car"; a word without
\* metacharacters matches itself
Pattern(word) == IF word = "(car)" THEN "car" ELSE word

\* {"message": {"$regex": particulars}}: the label, as a pattern, matches
\* somewhere in the message
Occurs(particulars, message) ==
    \E i \in 0..(Len(message) - Len(particulars)) :
        \A k \in 1..Len(particulars) : message[i + k] = Pattern(particulars[k])

HasRecentReminder(ins, user_id, particulars, recent_cutoff) ==
    \E i \in DOMAIN ins :
        /\ ins[i].user_id = user_id
        /\ ins[i].type = "payment_due_soon"
        /\ Occurs(particulars, ins[i].message)
        /\ ins[i].created_at >= recent_cutoff

RECURSIVE UpcomingLoop(_, _, _, _)
UpcomingLoop(ps, ins, user_id, t) ==
    IF ps = <<>> THEN [ok |-> TRUE, insights |-> ins]
    ELSE
      LET payment == Head(ps)
          first_date == payment.firstdate
          today == Today(t)
          occurrence == payment.occurrence
          days_until ==
              IF occurrence = "monthly" THEN (first_date.day - today.day) % 30
              ELSE (WeekdayOfDay(DayNumber(first_date)) - WeekdayOfDay(t \div 24)) % 7
          recent_cutoff == t - 24 * 2
      IN  IF ~ValidDate(first_date)
          THEN [ok |-> FALSE, raised |-> "ValueError", insights |-> ins]
          ELSE IF occurrence \notin {"monthly", "weekly"}
          THEN UpcomingLoop(Tail(ps), ins, user_id, t)
          ELSE IF ~(1 <= days_until /\ days_until <= 3)
          THEN UpcomingLoop(Tail(ps), ins, user_id, t)
          ELSE IF HasRecentReminder(ins, user_id, payment.particulars, recent_cutoff)
          THEN UpcomingLoop(Tail(ps), ins, user_id, t)
          ELSE UpcomingLoop(Tail(ps),
                            Append(ins, Insight(user_id, "payment_due_soon", "high",
                                                ReminderMessage(payment, days_until), t)),
                            user_id, t)

\* variant that reads the high-importance payments of every user
check_upcoming_payments_of_all(ins, user_id, t) ==
    UpcomingLoop(SelectSeq(payments, LAMBDA p : p.importance = "high"),
                 ins, user_id, t)

\* AgentService.check_upcoming_payments: the insights collection afterwards, and
\* whether the call raised
check_upcoming_payments(ins, user_id, t) ==
    UpcomingLoop(SelectSeq(payments,
                           LAMBDA p : p.user_id = user_id /\ p.importance = "high"),
                 ins, user_id, t)

\* variant in which the missing account raises
AccountNotFoundRaises == Raise("KeyError")

\* the structured not-found result of predict_payment_risk
AccountNotFound == Return([error |-> "Account not found"])

\* AgentService.predict_payment_risk: every outcome of the call, as what it
\* returns (or raises) and the insights collection afterwards
predict_payment_risk(acc, ins, user_id, t) ==
    LET account == acc[user_id]
        weekly_expenses == calculate_weekly_buffer(user_id)
    IN  IF ~account.exists THEN {[out |-> AccountNotFound, insights |-> ins]}
        ELSE IF ~weekly_expenses.ok
        THEN {[out |-> Raise(weekly_expenses.raised), insights |-> ins]}
        ELSE { LET result == RiskResult(user_id, account.balance,
                                        weekly_expenses.value, income_prediction)
               IN  [out |-> Return(result),
                    insights |-> IF RiskAboveThreshold(result.unrounded)
                                 THEN generate_risk_insight(ins, user_id, result, t)
                                 ELSE ins]
               : income_prediction \in predict_weekly_income(user_id) }

----------------------------------------------------------------------------
(* scheduler.update_all_buffers and the 6-hourly reminder job *)

\* users_collection.find({}), in natural order
UserOrder == <<"u1", "u2">>

\* one iteration of update_all_buffers: an exception ends the iteration, and
\* what it wrote before stays written
SweepUser(st, user_id) ==
    LET ub == update_buffer_for_user(st.accounts, user_id)
        ins1 == check_balance_risk(ub.accounts, st.insights, user_id, now)
        up == check_upcoming_payments(ins1, user_id, now)
    IN  IF ~ub.ok THEN st
        ELSE [accounts |-> ub.accounts, insights |-> up.insights]

RECURSIVE SweepLoop(_, _)
SweepLoop(us, st) ==
    IF us = <<>> THEN st ELSE SweepLoop(Tail(us), SweepUser(st, Head(us)))

\* the list comprehension of the reminder job: the first exception ends it
RECURSIVE ReminderLoop(_, _)
ReminderLoop(us, ins) ==
    IF us = <<>> THEN [ok |-> TRUE, insights |-> ins]
    ELSE LET up == check_upcoming_payments(ins, Head(us), now)
         IN  IF ~up.ok THEN up ELSE ReminderLoop(Tail(us), up.insights)

----------------------------------------------------------------------------
(* Initial states *)

Payment(user_id, amount, occurrence, particulars, importance, firstdate) ==
    [user_id |-> user_id, amount |-> amount, occurrence |-> occurrence,
     particulars |-> particulars, importance |-> importance, firstdate |-> firstdate]

\* 2025-01-26T12:00Z, a Sunday
StartHour == 24 * 391 + 12

Idle == [pc |-> "idle"]

Threads == {"req", "sched"}

\* the accounts a behaviour may start with: u2 has none, u1 has none, or the
\* account of the design's buffer-breach scenario (balance 200, buffer 500), or
\* one with a healthy balance
InitAccounts ==
    [u1 : {NoAccount, Account(200000, 500000), Account(3000000, 0), Account(3900000, 0)},
     u2 : {NoAccount}]

InitPayments ==
    { <<>>,
      << Payment("u1", 1000000, "monthly", <<"Loan">>, "normal", Date(2024, 12, 26)) >>,
      << Payment("u1", 4000000, "monthly", <<"Tuition">>, "normal", Date(2024, 12, 27)) >>,
      << Payment("u1", 500004, "weekly", <<"Rent">>, "high", Date(2025, 1, 29)),
         Payment("u2", 200000, "weekly", <<"Phone">>, "high", Date(2025, 1, 28)) >>,
      << Payment("u1", 300000, "annual", <<"Insurance">>, "high", Date(2024, 6, 15)) >> }

NoCall == [op |-> "none"]

InitCommon ==
    /\ transactions = <<>>
    /\ insights = <<>>
    /\ ret = NoCall
    /\ jobs = [alive |-> TRUE, next_daily |-> 24 * ((now \div 24) + 1),
               next_reminders |-> now + 6]
    /\ th = [t \in Threads |-> Idle]

\* the five classes the encoder was trained on
TrainedClasses ==
    <<"cab_driver", "food_delivery_rider", "freelancer", "part_time_laborer", "shop_assistant">>

\* no questionnaire stored, and the encoder of the trained model
InitModel ==
    /\ questionnaires = [u \in Users |-> NoQuestionnaire]
    /\ label_encoder = TrainedClasses

Init ==
    /\ now = StartHour
    /\ accounts \in InitAccounts
    /\ payments \in InitPayments
    /\ model_loaded \in BOOLEAN
    /\ InitModel
    /\ InitCommon

----------------------------------------------------------------------------
(* The calls, each as one step *)

AllIdle == \A t \in Threads : th[t].pc = "idle"

\* time passes; what the last call returned has been consumed by then
Tick ==
    /\ AllIdle
    /\ now < StartHour + 13 * MaxTicks
    /\ now' = now + 13
    /\ ret' = NoCall
    /\ UNCHANGED <<accounts, payments, transactions, insights, model_loaded,
                   questionnaires, label_encoder, jobs, th>>

\* calculate_weekly_buffer(user_id)
CalculateWeeklyBuffer(user_id) ==
    /\ AllIdle
    /\ ret' = [op |-> "calculate_weekly_buffer", user_id |-> user_id,
               out |-> calculate_weekly_buffer(user_id)]
    /\ UNCHANGED <<now, accounts, payments, transactions, insights, model_loaded,
                   questionnaires, label_encoder, jobs, th>>

\* GET /predictions/risk/{user_id}: predict_payment_risk(user_id)
PredictPaymentRisk(user_id) ==
    /\ AllIdle
    /\ \E r \in predict_payment_risk(accounts, insights, user_id, now) :
          /\ insights' = r.insights
          /\ Len(insights') <= MaxInsights
          /\ ret' = [op |-> "predict_payment_risk", user_id |-> user_id,
                     out |-> r.out]
    /\ UNCHANGED <<now, accounts, payments, transactions, model_loaded, questionnaires,
                   label_encoder, jobs, th>>

\* update_buffer_for_user(user_id)
UpdateBufferForUser(user_id) ==
    LET ub == update_buffer_for_user(accounts, user_id)
    IN  /\ AllIdle
        /\ accounts' = ub.accounts
        /\ ret' = [op |-> "update_buffer_for_user", user_id |-> user_id,
                   out |-> IF ub.ok THEN Return(ub.value) ELSE Raise(ub.raised)]
        /\ UNCHANGED <<now, payments, transactions, insights, model_loaded,
                       questionnaires, label_encoder, jobs, th>>

\* check_balance_risk(user_id)
CheckBalanceRisk(user_id) ==
    /\ AllIdle
    /\ insights' = check_balance_risk(accounts, insights, user_id, now)
    /\ Len(insights') <= MaxInsights
    /\ ret' = [op |-> "check_balance_risk", user_id |-> user_id, out |-> Return("None")]
    /\ UNCHANGED <<now, accounts, payments, transactions, model_loaded, questionnaires,
                   label_encoder, jobs, th>>

\* check_upcoming_payments(user_id)
CheckUpcomingPayments(user_id) ==
    LET up == check_upcoming_payments(insights, user_id, now)
    IN  /\ AllIdle
        /\ insights' = up.insights
        /\ Len(insights') <= MaxInsights
        /\ ret' = [op |-> "check_upcoming_payments", user_id |-> user_id,
                   out |-> IF up.ok THEN Return("None") ELSE Raise(up.raised)]
        /\ UNCHANGED <<now, accounts, payments, transactions, model_loaded,
                       questionnaires, label_encoder, jobs, th>>

TxAmounts == {100000}

Transaction(acct_id, amount, type, datetime) ==
    [acct_id |-> acct_id, amount |-> amount, type |-> type, datetime |-> datetime]

\* POST /transactions/: create_transaction(transaction); an account's _id is
\* written as the user_id of its owner
CreateTransaction(acct_id, type, amount) ==
    LET account == accounts[acct_id]
        acc1 == [accounts EXCEPT ![acct_id].balance =
                    IF type = "deposit" THEN @ + amount ELSE @ - amount]
    IN  /\ AllIdle
        /\ IF ~account.exists
           THEN /\ ret' = [op |-> "create_transaction", user_id |-> acct_id,
                           out |-> Raise("404 Virtual account not found")]
                /\ UNCHANGED <<accounts, transactions, insights>>
           ELSE IF type = "withdrawal" /\ account.balance < amount
           THEN /\ ret' = [op |-> "create_transaction", user_id |-> acct_id,
                           out |-> Raise("400 Insufficient balance")]
                /\ UNCHANGED <<accounts, transactions, insights>>
           ELSE /\ Len(transactions) < MaxTx
                /\ accounts' = acc1
                /\ transactions' = Append(transactions,
                                          Transaction(acct_id, amount, type, now))
                /\ insights' = check_balance_risk(acc1, insights, acct_id, now)
                /\ Len(insights') <= MaxInsights
                /\ ret' = [op |-> "create_transaction", user_id |-> acct_id,
                           out |-> Return(Transaction(acct_id, amount, type, now))]
        /\ UNCHANGED <<now, payments, model_loaded, questionnaires, label_encoder, jobs, th>>

\* the daily job, run by schedule.run_pending() once it is due
UpdateAllBuffers ==
    LET st == SweepLoop(UserOrder, [accounts |-> accounts, insights |-> insights])
    IN  /\ AllIdle
        /\ jobs.alive
        /\ now >= jobs.next_daily
        /\ accounts' = st.accounts
        /\ insights' = st.insights
        /\ Len(insights') <= MaxInsights
        /\ jobs' = [jobs EXCEPT !.next_daily = 24 * ((now \div 24) + 1)]
        /\ ret' = [op |-> "update_all_buffers", at |-> now]
        /\ UNCHANGED <<now, payments, transactions, model_loaded, questionnaires,
                       label_encoder, th>>

\* the 6-hourly job; an exception leaves run_scheduler and ends the thread
ReminderJob ==
    LET r == ReminderLoop(UserOrder, insights)
    IN  /\ AllIdle
        /\ jobs.alive
        /\ now >= jobs.next_reminders
        /\ insights' = r.insights
        /\ Len(insights') <= MaxInsights
        /\ jobs' = IF r.ok THEN [jobs EXCEPT !.next_reminders = now + 6]
                   ELSE [jobs EXCEPT !.alive = FALSE]
        /\ ret' = [op |-> "reminder_job", at |-> now]
        /\ UNCHANGED <<now, accounts, payments, transactions, model_loaded,
                       questionnaires, label_encoder, th>>

Next ==
    \/ Tick
    \/ \E user_id \in Users : PredictPaymentRisk(user_id)
    \/ \E user_id \in Users : UpdateBufferForUser(user_id)
    \/ \E user_id \in Users : CheckBalanceRisk(user_id)

Spec == Init /\ [][Next]_vars

----------------------------------------------------------------------------
(* The buffer calculator on its own: calculate_weekly_buffer for u1, over the
   scheduled payments and the days it can meet *)

\* the payments the collection is filled from: two weekly ones, two monthly
\* ones, two annual ones (one first due on a 29 February), one whose occurrence
\* tag is none of the three, one whose firstdate matches YYYY-MM-DD and is no
\* date, and one of another user
BufferCatalog ==
    { Payment("u1", 1004, "weekly", <<"Rent">>, "high", Date(2025, 1, 29)),
      Payment("u1", 2506, "weekly", <<"Milk">>, "normal", Date(2024, 3, 1)),
      Payment("u1", 3007, "monthly", <<"Loan">>, "high", Date(2024, 12, 27)),
      Payment("u1", 500000, "monthly", <<"Phone">>, "normal", Date(2024, 12, 10)),
      Payment("u1", 300000, "annual", <<"Insurance">>, "high", Date(2024, 6, 15)),
      Payment("u1", 250000, "annual", <<"Licence">>, "normal", Date(2024, 2, 29)),
      Payment("u1", 700000, "daily", <<"Tea">>, "normal", Date(2025, 1, 1)),
      Payment("u1", 900000, "weekly", <<"Gym">>, "normal", Date(2025, 2, 30)),
      Payment("u2", 200000, "weekly", <<"Phone">>, "high", Date(2025, 1, 28)) }

\* one monthly payment of u1 for every day of month 1..31
MonthlySingles ==
    { << Payment("u1", 3007, "monthly", <<"Loan">>, "high", Date(2024, 12, d)) >> :
         d \in 1..31 }

BufferPayments ==
    MonthlySingles \cup UNION { [1..n -> BufferCatalog] : n \in 0..MaxPays }

\* noon of every day of January 2025, and of 27 February 2024 (a leap year)
BufferNows == { 24 * d + 12 : d \in (366..396) \cup {57} }

InitBuffer ==
    /\ now \in BufferNows
    /\ accounts = [u \in Users |-> NoAccount]
    /\ payments \in BufferPayments
    /\ model_loaded = FALSE
    /\ InitModel
    /\ InitCommon

NextBuffer == \E user_id \in {"u1"} : CalculateWeeklyBuffer(user_id)

SpecBuffer == InitBuffer /\ [][NextBuffer]_vars

----------------------------------------------------------------------------
(* The forecaster and its callers: the income and risk routes, and the chat
   route, whose transactions are the deposit history the fallback reads *)

\* GET /predictions/income/{user_id}: ml_service.predict_weekly_income(user_id)
PredictWeeklyIncome(user_id) ==
    /\ AllIdle
    /\ \E prediction \in predict_weekly_income(user_id) :
          ret' = [op |-> "predict_weekly_income", user_id |-> user_id,
                  out |-> Return(prediction)]
    /\ UNCHANGED <<now, accounts, payments, transactions, insights, model_loaded,
                   questionnaires, label_encoder, jobs, th>>

\* ml_service.get_user_archetype(user_id)
GetUserArchetype(user_id) ==
    /\ AllIdle
    /\ ret' = [op |-> "get_user_archetype", user_id |-> user_id,
               out |-> Return(get_user_archetype(user_id))]
    /\ UNCHANGED <<now, accounts, payments, transactions, insights, model_loaded,
                   questionnaires, label_encoder, jobs, th>>

\* nlp_service.extract_transaction_details: nothing understood, or the amount
\* and type the language model (or the regex fallback) extracted
NoIntent == [understood |-> FALSE]

Intent(amount, type) == [understood |-> TRUE, amount |-> amount, type |-> type]

\* float(args.get('amount', 0)) of the function call is not validated: a
\* negative amount, zero, and an ordinary one
IntentAmounts == {0 - 600000, 0, 120000}

Intents ==
    {NoIntent} \cup {Intent(amount, type) :
                        amount \in IntentAmounts, type \in {"deposit", "withdrawal"}}

\* POST /chat/message: process_chat_message(chat)
ProcessChatMessage(user_id, intent) ==
    LET account == accounts[user_id]
        acc1 == [accounts EXCEPT ![user_id].balance =
                    IF intent.type = "deposit" THEN @ + intent.amount
                    ELSE @ - intent.amount]
    IN  /\ AllIdle
        /\ IF ~intent.understood
           THEN /\ ret' = [op |-> "process_chat_message", user_id |-> user_id,
                           out |-> Return([action_taken |-> FALSE])]
                /\ UNCHANGED <<accounts, transactions, insights>>
           ELSE IF ~account.exists
           THEN /\ ret' = [op |-> "process_chat_message", user_id |-> user_id,
                           out |-> Raise("404 Virtual account not found")]
                /\ UNCHANGED <<accounts, transactions, insights>>
           ELSE IF intent.type # "deposit" /\ account.balance < intent.amount
           THEN /\ ret' = [op |-> "process_chat_message", user_id |-> user_id,
                           out |-> Return([action_taken |-> FALSE])]
                /\ UNCHANGED <<accounts, transactions, insights>>
           ELSE /\ Len(transactions) < MaxTx
                /\ accounts' = acc1
                /\ transactions' = Append(transactions,
                                       Transaction(user_id, intent.amount, intent.type, now))
                /\ insights' = check_balance_risk(acc1, insights, user_id, now)
                /\ Len(insights') <= MaxInsights
                /\ ret' = [op |-> "process_chat_message", user_id |-> user_id,
                           out |-> Return([action_taken |-> TRUE])]
        /\ UNCHANGED <<now, payments, model_loaded, questionnaires, label_encoder, jobs, th>>

\* stored questionnaires: none, one without a first answer, one with an empty
\* first answer, and first answers with keywords of no, one and several groups
StoredQuestionnaires ==
    { NoQuestionnaire, Questionnaire(FALSE, <<>>), Questionnaire(TRUE, <<>>),
      Questionnaire(TRUE, <<"z", "o", "m", "a", "t", "o">>),
      Questionnaire(TRUE, <<"U", "b", "e", "r", " ", "a", "n", "d", " ", "S", "w", "i", "g", "g", "y">>),
      Questionnaire(TRUE, <<"s", "h", "o", "p", " ", "d", "e", "s", "i", "g", "n">>),
      Questionnaire(TRUE, <<"c", "o", "l", "a", " ", "s", "e", "l", "l", "e", "r">>),
      Questionnaire(TRUE, <<"f", "a", "r", "m", "i", "n", "g">>),
      Questionnaire(TRUE, <<"R", "e", "t", "a", "i", "l">>),
      Questionnaire(TRUE, <<"c", "o", "n", "s", "t", "r", "u", "c", "t", "i", "o", "n", " ", "L", "A", "B", "O", "R">>),
      Questionnaire(TRUE, <<"F", "R", "E", "E", "L", "A", "N", "C", "E", "R">>),
      Questionnaire(TRUE, <<"I", " ", "d", "r", "i", "v", "e", " ", "a", " ", "c", "a", "b">>) }

\* an encoder trained without the class cab_driver
SkewedClasses == <<"food_delivery_rider", "freelancer", "part_time_laborer", "shop_assistant">>

\* deposit histories of u1's account: none; one recent deposit; a recent one and
\* one made exactly 30 days ago; one made 30 days and an hour ago; a withdrawal
DepositHistories ==
    { <<>>,
      << Transaction("u1", 120000, "deposit", StartHour - 24) >>,
      << Transaction("u1", 120000, "deposit", StartHour - 24),
         Transaction("u1", 240000, "deposit", StartHour - 24 * 30) >>,
      << Transaction("u1", 120000, "deposit", StartHour - 24 * 30 - 1) >>,
      << Transaction("u1", 120000, "withdrawal", StartHour - 24) >> }

InitForecast ==
    /\ now = StartHour
    /\ accounts \in [u1 : {NoAccount, Account(3000000, 0)}, u2 : {NoAccount}]
    /\ payments = <<>>
    /\ model_loaded \in BOOLEAN
    /\ questionnaires \in [u1 : StoredQuestionnaires, u2 : {NoQuestionnaire}]
    /\ label_encoder \in {TrainedClasses, SkewedClasses}
    /\ transactions \in DepositHistories
    /\ ~accounts["u1"].exists => transactions = <<>>
    /\ insights = <<>>
    /\ ret = NoCall
    /\ jobs = [alive |-> TRUE, next_daily |-> 24 * ((now \div 24) + 1),
               next_reminders |-> now + 6]
    /\ th = [t \in Threads |-> Idle]

NextForecast ==
    \/ \E user_id \in Users : PredictWeeklyIncome(user_id)
    \/ \E user_id \in Users : GetUserArchetype(user_id)
    \/ \E user_id \in Users : PredictPaymentRisk(user_id)
    \/ \E user_id \in Users, intent \in Intents : ProcessChatMessage(user_id, intent)

SpecForecast == InitForecast /\ [][NextForecast]_vars

----------------------------------------------------------------------------
(* The engine's calls, the two scheduled jobs and PUT /insights/{id}/read, over
   accounts on every side of the breach levels and payments whose reminders
   fall due.  An insight's _id is its position in the collection. *)

\* PUT /insights/{insight_id}/read: mark_insight_read(insight_id)
MarkInsightRead(insight_id) ==
    /\ AllIdle
    /\ IF insight_id \in DOMAIN insights
       THEN /\ insights' = [insights EXCEPT ![insight_id].read = TRUE]
            /\ ret' = [op |-> "mark_insight_read", insight_id |-> insight_id,
                       out |-> Return([status |-> "marked_as_read"])]
       ELSE /\ insights' = insights
            /\ ret' = [op |-> "mark_insight_read", insight_id |-> insight_id,
                       out |-> Raise("404 Insight not found")]
    /\ UNCHANGED <<now, accounts, payments, transactions, model_loaded, questionnaires,
                   label_encoder, jobs, th>>

\* u1 has no account, or one whose balance is below half the buffer, at half
\* the buffer, at the buffer, between the buffer and one and a half times
\* it, or at one and a half times it; u2 has none.  With scheduled payments
\* u1 has the fifth of these accounts.
EngineAccounts ==
    [u1 : {NoAccount, Account(200000, 500000), Account(250000, 500000),
           Account(500000, 500000), Account(600000, 500000), Account(750000, 500000)},
     u2 : {NoAccount}]

\* the scheduled payments: none; two of high importance due within three days
\* of 2025-01-26, of which one label is part of the other, in both orders; a
\* label with parentheses; payments that are not of high importance, not
\* monthly or weekly, or due in four days; and one of each user
EnginePayments ==
    { <<>>,
      << Payment("u1", 300000, "monthly", <<"Car", "Rent">>, "high", Date(2024, 12, 29)),
         Payment("u1", 500000, "weekly", <<"Rent">>, "high", Date(2025, 1, 29)) >>,
      << Payment("u1", 500000, "weekly", <<"Rent">>, "high", Date(2025, 1, 29)),
         Payment("u1", 300000, "monthly", <<"Car", "Rent">>, "high", Date(2024, 12, 29)) >>,
      << Payment("u1", 250000, "monthly", <<"EMI", "(car)">>, "high", Date(2024, 12, 28)) >>,
      << Payment("u1", 100000, "weekly", <<"Gym">>, "normal", Date(2025, 1, 28)),
         Payment("u1", 300000, "annual", <<"Insurance">>, "high", Date(2024, 1, 28)),
         Payment("u1", 200000, "monthly", <<"Phone">>, "high", Date(2024, 12, 30)) >>,
      << Payment("u2", 200000, "weekly", <<"Phone">>, "high", Date(2025, 1, 28)),
         Payment("u1", 400000, "weekly", <<"Rent">>, "high", Date(2025, 1, 27)) >> }

\* the ids mark_insight_read is called with: the oldest insight's, and one
\* that no insight has
InsightIds == {1, MaxInsights + 1}

InitEngine ==
    /\ now = StartHour
    /\ accounts \in EngineAccounts
    /\ payments \in EnginePayments
    /\ payments # <<>> => accounts["u1"] = Account(600000, 500000)
    /\ model_loaded = FALSE
    /\ InitModel
    /\ InitCommon

NextEngine ==
    \/ Tick
    \/ \E user_id \in Users : CalculateWeeklyBuffer(user_id)
    \/ \E user_id \in Users : PredictPaymentRisk(user_id)
    \/ \E user_id \in Users : UpdateBufferForUser(user_id)
    \/ \E user_id \in Users : CheckBalanceRisk(user_id)
    \/ \E user_id \in Users : CheckUpcomingPayments(user_id)
    \/ UpdateAllBuffers
    \/ ReminderJob
    \/ \E insight_id \in InsightIds : MarkInsightRead(insight_id)

SpecEngine == InitEngine /\ [][NextEngine]_vars

----------------------------------------------------------------------------
(* The calls made for one user, with two users who both have an account and
   scheduled payments of the same label *)

\* both users have an account, each in breach of its buffer
UsersAccounts ==
    [u1 : {Account(200000, 500000)},
     u2 : {Account(600000, 500000)}]

\* none, or a weekly rent of high importance for each user, due within three
\* days of 2025-01-26 and larger than what either user can cover
UsersPayments ==
    { <<>>,
      << Payment("u1", 4000000, "weekly", <<"Rent">>, "high", Date(2025, 1, 29)),
         Payment("u2", 4000000, "weekly", <<"Rent">>, "high", Date(2025, 1, 28)) >> }

InitUsers ==
    /\ now = StartHour
    /\ accounts \in UsersAccounts
    /\ payments \in UsersPayments
    /\ model_loaded = FALSE
    /\ InitModel
    /\ InitCommon

NextUsers ==
    \/ Tick
    \/ \E user_id \in Users : CalculateWeeklyBuffer(user_id)
    \/ \E user_id \in Users : PredictPaymentRisk(user_id)
    \/ \E user_id \in Users : UpdateBufferForUser(user_id)
    \/ \E user_id \in Users : CheckBalanceRisk(user_id)
    \/ \E user_id \in Users : CheckUpcomingPayments(user_id)

SpecUsers == InitUsers /\ [][NextUsers]_vars

----------------------------------------------------------------------------
(* The feature builder on its own: prepare_features for a user whose account
   has a history of deposits in the last 30 days *)

\* prepare_features(user_id, None), as predict_weekly_income calls it
PrepareFeatures(user_id) ==
    /\ AllIdle
    /\ ret' = [op |-> "prepare_features", user_id |-> user_id,
               out |-> prepare_features(user_id)]
    /\ UNCHANGED <<now, accounts, payments, transactions, insights, model_loaded,
                   questionnaires, label_encoder, jobs, th>>

\* the amount of the k-th most recent deposit: 10 rupees for each place in
\* the history, or nothing and 500 rupees in turn
HistoryAmount(pattern, k) ==
    IF pattern = "rising" THEN 10000 * k
    ELSE IF k % 2 = 1 THEN 0 ELSE 500000

\* n deposits of u1 in the order they were stored, twelve hours apart, the
\* latest twelve hours before the start
History(pattern, n) ==
    [i \in 1..n |-> Transaction("u1", HistoryAmount(pattern, n - i + 1), "deposit",
                                StartHour - 12 * (n - i + 1))]

InitFeatures ==
    /\ now = StartHour
    /\ accounts = [u1 |-> Account(3000000, 0), u2 |-> NoAccount]
    /\ payments = <<>>
    /\ model_loaded = TRUE
    /\ InitModel
    /\ \E pattern \in {"rising", "alternating"}, n \in 0..MaxHistory :
          transactions = History(pattern, n)
    /\ insights = <<>>
    /\ ret = NoCall
    /\ jobs = [alive |-> TRUE, next_daily |-> 24 * ((now \div 24) + 1),
               next_reminders |-> now + 6]
    /\ th = [t \in Threads |-> Idle]

NextFeatures == \E user_id \in Users : PrepareFeatures(user_id)

SpecFeatures == InitFeatures /\ [][NextFeatures]_vars

----------------------------------------------------------------------------
(* The scheduler thread on its own: the daily and the 6-hourly job over two
   users, of whom the first has a payment the engine cannot evaluate *)

\* u2 has a weekly payment of high importance due in two days; u1 has one
\* with a firstdate that is no date, an annual one, or one like u2's
SchedPayments ==
    { << Payment("u1", 900000, "weekly", <<"Gym">>, "high", Date(2025, 2, 30)),
         Payment("u2", 200000, "weekly", <<"Phone">>, "high", Date(2025, 1, 28)) >>,
      << Payment("u1", 300000, "annual", <<"Insurance">>, "high", Date(2024, 6, 15)),
         Payment("u2", 200000, "weekly", <<"Phone">>, "high", Date(2025, 1, 28)) >>,
      << Payment("u1", 400000, "weekly", <<"Rent">>, "high", Date(2025, 1, 29)),
         Payment("u2", 200000, "weekly", <<"Phone">>, "high", Date(2025, 1, 28)) >> }

InitSched ==
    /\ now = StartHour
    /\ accounts \in [u1 : {Account(600000, 500000)},
                     u2 : {NoAccount, Account(200000, 500000)}]
    /\ payments \in SchedPayments
    /\ model_loaded = FALSE
    /\ InitModel
    /\ InitCommon

NextSched ==
    \/ Tick
    \/ UpdateAllBuffers
    \/ ReminderJob
    \/ \E user_id \in Users : CheckBalanceRisk(user_id)
    \/ \E insight_id \in InsightIds : MarkInsightRead(insight_id)

SpecSched == InitSched /\ [][NextSched]_vars

----------------------------------------------------------------------------
(* The buffer-breach check over a day and more: an account whose balance a
   withdrawal moves into a more severe level, and insights that are marked
   read *)

\* the withdrawal and the deposit that move a balance of 600 against a
\* buffer of 500 to 200 and to 1000
BreachAmounts == {400000}

InitBreach ==
    /\ now = StartHour
    /\ accounts \in [u1 : {Account(600000, 500000), Account(200000, 500000)},
                     u2 : {NoAccount}]
    /\ payments = <<>>
    /\ model_loaded = FALSE
    /\ InitModel
    /\ InitCommon

NextBreach ==
    \/ Tick
    \/ \E user_id \in Users : CheckBalanceRisk(user_id)
    \/ \E acct_id \in Users, type \in {"deposit", "withdrawal"}, amount \in BreachAmounts :
          CreateTransaction(acct_id, type, amount)
    \/ \E insight_id \in InsightIds : MarkInsightRead(insight_id)

SpecBreach == InitBreach /\ [][NextBreach]_vars

----------------------------------------------------------------------------
(* Two threads: a request thread running create_transaction and the scheduler
   thread running update_all_buffers, one collection operation per step.
   check_upcoming_payments is one step here: no other thread of this
   specification reads or writes what it reads and writes. *)

Local(t, locals) == [th EXCEPT ![t] = locals]

\* create_transaction: find_one on the account, or 404
CtBegin(acct_id, type, amount) ==
    /\ th["req"].pc = "idle"
    /\ IF ~accounts[acct_id].exists
       THEN /\ ret' = [op |-> "create_transaction", user_id |-> acct_id,
                       out |-> Raise("404 Virtual account not found")]
            /\ UNCHANGED th
       ELSE /\ th' = Local("req", [pc |-> "ct_update", user_id |-> acct_id,
                                   account |-> accounts[acct_id],
                                   tx |-> Transaction(acct_id, amount, type, now)])
            /\ UNCHANGED ret
    /\ UNCHANGED <<now, accounts, payments, transactions, insights, model_loaded,
                   questionnaires, label_encoder, jobs>>

\* create_transaction: the balance test on the account read before, and $inc
CtUpdate ==
    LET l == th["req"] IN
    /\ l.pc = "ct_update"
    /\ IF l.tx.type = "withdrawal" /\ l.account.balance < l.tx.amount
       THEN /\ ret' = [op |-> "create_transaction", user_id |-> l.user_id,
                       out |-> Raise("400 Insufficient balance")]
            /\ th' = Local("req", Idle)
            /\ UNCHANGED accounts
       ELSE /\ accounts' = [accounts EXCEPT ![l.user_id].balance =
                               IF l.tx.type = "deposit" THEN @ + l.tx.amount
                               ELSE @ - l.tx.amount]
            /\ th' = Local("req", [l EXCEPT !.pc = "ct_insert"])
            /\ UNCHANGED ret
    /\ UNCHANGED <<now, payments, transactions, insights, model_loaded, questionnaires,
                   label_encoder, jobs>>

\* create_transaction: insert_one on the transactions, then check_balance_risk
CtInsert ==
    LET l == th["req"] IN
    /\ l.pc = "ct_insert"
    /\ Len(transactions) < MaxTx
    /\ transactions' = Append(transactions, l.tx)
    /\ th' = Local("req", [pc |-> "cb_find_account", user_id |-> l.user_id, tx |-> l.tx])
    /\ UNCHANGED <<now, accounts, payments, insights, model_loaded, questionnaires,
                   label_encoder, ret, jobs>>

\* where check_balance_risk returns to: create_transaction returns its
\* transaction, update_all_buffers goes on with check_upcoming_payments
CbReturnTh(t) ==
    IF t = "req" THEN Local(t, Idle)
    ELSE Local(t, [pc |-> "sw_upcoming", user_id |-> th[t].user_id, users |-> th[t].users])

CbReturnRet(t) ==
    IF t = "req"
    THEN [op |-> "create_transaction", user_id |-> th[t].user_id, out |-> Return(th[t].tx)]
    ELSE ret

\* check_balance_risk: find_one on the account
CbFindAccount(t) ==
    LET l == th[t] IN
    /\ l.pc = "cb_find_account"
    /\ IF ~accounts[l.user_id].exists
       THEN th' = CbReturnTh(t) /\ ret' = CbReturnRet(t)
       ELSE /\ th' = Local(t, [l EXCEPT !.pc = "cb_find_insight"] @@
                              [balance |-> accounts[l.user_id].balance,
                               buffer |-> accounts[l.user_id].buffer])
            /\ UNCHANGED ret
    /\ UNCHANGED <<now, accounts, payments, transactions, insights, model_loaded,
                   questionnaires, label_encoder, jobs>>

\* check_balance_risk: find_one on the insights, and the risk levels
CbFindInsight(t) ==
    LET l == th[t] IN
    /\ l.pc = "cb_find_insight"
    /\ IF \/ HasRecent(insights, l.user_id, "buffer_breach", RecentCutoff(now))
          \/ BreachPriority(l.balance, l.buffer) = "none"
       THEN th' = CbReturnTh(t) /\ ret' = CbReturnRet(t)
       ELSE /\ th' = Local(t, [l EXCEPT !.pc = "cb_insert"])
            /\ UNCHANGED ret
    /\ UNCHANGED <<now, accounts, payments, transactions, insights, model_loaded,
                   questionnaires, label_encoder, jobs>>

\* check_balance_risk: insert_one on the insights
CbInsert(t) ==
    LET l == th[t] IN
    /\ l.pc = "cb_insert"
    /\ Len(insights) < MaxInsights
    /\ insights' = Append(insights, Insight(l.user_id, "buffer_breach",
                                            BreachPriority(l.balance, l.buffer), <<>>, now))
    /\ th' = CbReturnTh(t)
    /\ ret' = CbReturnRet(t)
    /\ UNCHANGED <<now, accounts, payments, transactions, model_loaded, questionnaires,
                   label_encoder, jobs>>

\* update_all_buffers: the job is due and run_pending starts it
SwBegin ==
    /\ th["sched"].pc = "idle"
    /\ jobs.alive
    /\ now >= jobs.next_daily
    /\ th' = Local("sched", [pc |-> "sw_update", users |-> UserOrder])
    /\ UNCHANGED <<now, accounts, payments, transactions, insights, model_loaded,
                   questionnaires, label_encoder, ret, jobs>>

\* the end of an iteration of update_all_buffers, and of the job after the last
SwNextTh(l) ==
    IF Tail(l.users) = <<>> THEN Local("sched", Idle)
    ELSE Local("sched", [pc |-> "sw_update", users |-> Tail(l.users)])

SwNextJobs(l) ==
    IF Tail(l.users) = <<>>
    THEN [jobs EXCEPT !.next_daily = 24 * ((now \div 24) + 1)]
    ELSE jobs

SwNextRet(l) == IF Tail(l.users) = <<>> THEN [op |-> "update_all_buffers"] ELSE ret

\* update_all_buffers: update_buffer_for_user of the next user; an exception
\* ends the iteration
SwUpdate ==
    LET l == th["sched"]
        user_id == Head(l.users)
        ub == update_buffer_for_user(accounts, user_id)
    IN  /\ l.pc = "sw_update"
        /\ accounts' = ub.accounts
        /\ IF ub.ok
           THEN /\ th' = Local("sched", [pc |-> "cb_find_account", user_id |-> user_id,
                                         users |-> l.users])
                /\ UNCHANGED <<jobs, ret>>
           ELSE /\ th' = SwNextTh(l)
                /\ jobs' = SwNextJobs(l)
                /\ ret' = SwNextRet(l)
        /\ UNCHANGED <<now, payments, transactions, insights, model_loaded,
                       questionnaires, label_encoder>>

\* update_all_buffers: check_upcoming_payments, which ends the iteration
SwUpcoming ==
    LET l == th["sched"]
        up == check_upcoming_payments(insights, l.user_id, now)
    IN  /\ l.pc = "sw_upcoming"
        /\ insights' = up.insights
        /\ Len(insights') <= MaxInsights
        /\ th' = SwNextTh(l)
        /\ jobs' = SwNextJobs(l)
        /\ ret' = SwNextRet(l)
        /\ UNCHANGED <<now, accounts, payments, transactions, model_loaded,
                       questionnaires, label_encoder>>

InitConc ==
    /\ now = StartHour
    /\ accounts \in [u1 : {Account(200000, 500000), Account(3000000, 0)}, u2 : {NoAccount}]
    /\ payments \in
          { << Payment("u1", 500004, "weekly", <<"Rent">>, "high", Date(2025, 1, 29)),
               Payment("u2", 200000, "weekly", <<"Phone">>, "high", Date(2025, 1, 28)) >>,
            << Payment("u1", 300000, "annual", <<"Insurance">>, "high", Date(2024, 6, 15)) >> }
    /\ model_loaded = FALSE
    /\ InitModel
    /\ InitCommon

NextConc ==
    \/ Tick
    \/ \E acct_id \in Users, type \in {"deposit", "withdrawal"}, amount \in TxAmounts :
          CtBegin(acct_id, type, amount)
    \/ CtUpdate
    \/ CtInsert
    \/ \E t \in Threads : CbFindAccount(t)
    \/ \E t \in Threads : CbFindInsight(t)
    \/ \E t \in Threads : CbInsert(t)
    \/ SwBegin
    \/ SwUpdate
    \/ SwUpcoming

SpecConc == InitConc /\ [][NextConc]_vars

----------------------------------------------------------------------------
(* Two request threads, each running create_transaction: the route is a plain
   def, which FastAPI runs on a thread pool.  One step per operation on the
   accounts; insert_one and check_balance_risk, which neither read nor write
   the balance, are one step. *)

Requests == {"r1", "r2"}

\* the amounts requested, against a balance of 200
RequestAmounts == {150000, 250000}

\* create_transaction: find_one on the account, or 404.  A request is taken
\* while the log holds fewer than MaxTx documents.
TxBegin(t, acct_id, type, amount) ==
    /\ th[t].pc = "idle"
    /\ Len(transactions) < MaxTx
    /\ IF ~accounts[acct_id].exists
       THEN /\ ret' = [op |-> "create_transaction", user_id |-> acct_id,
                       out |-> Raise("404 Virtual account not found")]
            /\ UNCHANGED th
       ELSE /\ th' = Local(t, [pc |-> "ct_update", user_id |-> acct_id,
                                account |-> accounts[acct_id],
                                tx |-> Transaction(acct_id, amount, type, now)])
            /\ UNCHANGED ret
    /\ UNCHANGED <<now, accounts, payments, transactions, insights, model_loaded,
                   questionnaires, label_encoder, jobs>>

\* create_transaction: the balance test on the account read before, and $inc
TxUpdate(t) ==
    LET l == th[t] IN
    /\ l.pc = "ct_update"
    /\ IF l.tx.type = "withdrawal" /\ l.account.balance < l.tx.amount
       THEN /\ ret' = [op |-> "create_transaction", user_id |-> l.user_id,
                       out |-> Raise("400 Insufficient balance")]
            /\ th' = Local(t, Idle)
            /\ UNCHANGED accounts
       ELSE /\ accounts' = [accounts EXCEPT ![l.user_id].balance =
                               IF l.tx.type = "deposit" THEN @ + l.tx.amount
                               ELSE @ - l.tx.amount]
            /\ th' = Local(t, [l EXCEPT !.pc = "ct_insert"])
            /\ UNCHANGED ret
    /\ UNCHANGED <<now, payments, transactions, insights, model_loaded, questionnaires,
                   label_encoder, jobs>>

\* create_transaction: insert_one on the transactions, check_balance_risk, and
\* the return of the transaction
TxInsert(t) ==
    LET l == th[t] IN
    /\ l.pc = "ct_insert"
    /\ transactions' = Append(transactions, l.tx)
    /\ insights' = check_balance_risk(accounts, insights, l.user_id, now)
    /\ Len(insights') <= MaxInsights
    /\ ret' = [op |-> "create_transaction", user_id |-> l.user_id, out |-> Return(l.tx)]
    /\ th' = Local(t, Idle)
    /\ UNCHANGED <<now, accounts, payments, model_loaded, questionnaires,
                   label_encoder, jobs>>

\* u1 has an account with balance 200, u2 has none
InitTx ==
    /\ now = StartHour
    /\ accounts = [u1 |-> Account(200000, 500000), u2 |-> NoAccount]
    /\ payments = <<>>
    /\ model_loaded = FALSE
    /\ InitModel
    /\ transactions = <<>>
    /\ insights = <<>>
    /\ ret = NoCall
    /\ jobs = [alive |-> TRUE, next_daily |-> 24 * ((now \div 24) + 1),
               next_reminders |-> now + 6]
    /\ th = [t \in Requests |-> Idle]

NextTx ==
    \/ \E t \in Requests, acct_id \in Users, type \in {"deposit", "withdrawal"},
          amount \in RequestAmounts : TxBegin(t, acct_id, type, amount)
    \/ \E t \in Requests : TxUpdate(t)
    \/ \E t \in Requests : TxInsert(t)

SpecTx == InitTx /\ [][NextTx]_vars

----------------------------------------------------------------------------
(* Properties of the engine's calls, checked under Spec *)

\* the insights of one type that a user has in the 24 hours up to now
RecentOf(user_id, type) ==
    {i \in DOMAIN insights :
        /\ insights[i].user_id = user_id
        /\ insights[i].type = type
        /\ insights[i].created_at >= now - 24}

\* the last call is a predict_payment_risk that returned a risk result
RiskReturned ==
    /\ ret.op = "predict_payment_risk"
    /\ ret.out.ok
    /\ "risk_level" \in DOMAIN ret.out.value

\* the last call is a check_balance_risk for an account in breach
BreachChecked ==
    /\ ret.op = "check_balance_risk"
    /\ accounts[ret.user_id].exists
    /\ 2 * accounts[ret.user_id].balance < 3 * accounts[ret.user_id].buffer

\* C1: sequential idempotence of the 24h checks.  After a check_balance_risk
\* call made in breach the user has exactly one buffer_breach insight in the
\* last 24 hours, after a predict_payment_risk call with probability >= 0.35
\* exactly one income_volatility_alert, and no two insights of one of these
\* types of one user are 24 hours or less apart: a second call within the
\* window persists nothing.
C1_SequentialIdempotence ==
    /\ BreachChecked => Cardinality(RecentOf(ret.user_id, "buffer_breach")) = 1
    /\ (RiskReturned /\ ret.out.value.unrounded >= 35000)
          => Cardinality(RecentOf(ret.user_id, "income_volatility_alert")) = 1
    /\ \A i, j \in DOMAIN insights :
          (/\ i < j
           /\ insights[i].user_id = insights[j].user_id
           /\ insights[i].type = insights[j].type
           /\ insights[i].type \in {"buffer_breach", "income_volatility_alert"})
          => insights[j].created_at - insights[i].created_at > 24

\* a second check_balance_risk call, 13 hours after the one that persisted the
\* insight, has returned in breach
C1_Witness ==
    /\ BreachChecked
    /\ \E i \in DOMAIN insights :
          /\ insights[i].user_id = ret.user_id
          /\ insights[i].type = "buffer_breach"
          /\ insights[i].created_at = now - 13

\* the tier and probability the rules of the design give, first match first
ExpectedTier(b, e, p5, p50, p95, u) ==
    IF b + p5 - e < 0 THEN <<"critical", 85000 + 15 * u>>
    ELSE IF b + p50 - e < 0 THEN <<"high", 60000 + 25 * u>>
    ELSE IF 2 * (b + p50 - e) < e THEN <<"medium", 35000 + 25 * u>>
    ELSE IF b + p95 - e < e THEN <<"low", 15000 + 20 * u>>
    ELSE <<"minimal", 5000 + 10 * u>>

\* C3: predict_payment_risk classifies by the first matching rule, in the order
\* critical, high, medium, low, minimal, on projected_X = balance + bound_X -
\* weekly_expenses, with the probability of that rule (capped at 0.99), and
\* returns exactly one of the five tiers.
C3_FirstMatchingRule ==
    RiskReturned =>
        LET r == ret.out.value
            expected == ExpectedTier(r.current_balance, r.weekly_expenses,
                                     r.predicted_income_range.pessimistic,
                                     r.predicted_income_range.median,
                                     r.predicted_income_range.optimistic,
                                     r.model_uncertainty)
        IN  /\ r.risk_level \in {"minimal", "low", "medium", "high", "critical"}
            /\ r.risk_level = expected[1]
            /\ r.unrounded = IF expected[2] > 99000 THEN 99000 ELSE expected[2]

\* the scenario of the design: balance 3000, expenses 1000, bounds 1500 / 2500 /
\* 4000, uncertainty 0.2 gives minimal
C3_Witness ==
    /\ RiskReturned
    /\ ret.out.value.current_balance = 3000000
    /\ ret.out.value.weekly_expenses = 1000000
    /\ ret.out.value.predicted_income_range =
          [pessimistic |-> 1500000, median |-> 2500000, optimistic |-> 4000000]
    /\ ret.out.value.model_uncertainty = 200
    /\ ret.out.value.risk_level = "minimal"

\* C4: the risk probability predict_payment_risk computes never exceeds 0.99.
C4_ProbabilityCap ==
    RiskReturned =>
        /\ ret.out.value.unrounded <= 99000
        /\ ret.out.value.risk_probability <= 99000

\* a critical result with uncertainty 3.0, where 0.85 + 3.0 * 0.15 is 1.30
C4_Witness ==
    /\ RiskReturned
    /\ ret.out.value.risk_level = "critical"
    /\ ret.out.value.model_uncertainty = 3000
    /\ ret.out.value.unrounded = 99000

\* the balances a returned result is compared with: 0 to 6000 in steps of 250
OtherBalances == {250000 * k : k \in 0..24}

\* the probability predict_payment_risk computes for the forecast and expenses
\* of the returned result at another balance
ProbabilityAt(balance) ==
    LET r == ret.out.value
        income == [confidence_5th |-> r.predicted_income_range.pessimistic,
                   confidence_50th |-> r.predicted_income_range.median,
                   confidence_95th |-> r.predicted_income_range.optimistic,
                   uncertainty |-> r.model_uncertainty]
    IN  Cap(RiskTier(balance, r.weekly_expenses, income).risk_probability)

\* C5: risk monotonicity in balance.  With the expenses and the forecast of a
\* returned result held fixed, every lower balance has a probability at least
\* as high and every higher balance one at most as high.
C5_MonotoneInBalance ==
    RiskReturned =>
        \A b \in OtherBalances :
            /\ b <= ret.out.value.current_balance
                  => ProbabilityAt(b) >= ret.out.value.unrounded
            /\ b >= ret.out.value.current_balance
                  => ProbabilityAt(b) <= ret.out.value.unrounded

\* a result whose probability is strictly below that of a lower balance and
\* strictly above that of a higher one
C5_Witness ==
    /\ RiskReturned
    /\ \E b1, b2 \in OtherBalances :
          /\ b1 < ret.out.value.current_balance
          /\ ret.out.value.current_balance < b2
          /\ ProbabilityAt(b1) > ret.out.value.unrounded
          /\ ret.out.value.unrounded > ProbabilityAt(b2)

\* C6: a predict_payment_risk call that computes a probability persists one
\* income_volatility_alert of its user when the probability is >= 0.35 and the
\* user has none created in the last 24 hours, and persists nothing otherwise
\* (in particular when the probability is below 0.35).
C6_InsightAtThreshold ==
    [][ (/\ ret'.op = "predict_payment_risk"
         /\ ret'.out.ok
         /\ "risk_level" \in DOMAIN ret'.out.value)
        => IF /\ ret'.out.value.unrounded >= 35000
              /\ RecentOf(ret'.user_id, "income_volatility_alert") = {}
           THEN /\ Len(insights') = Len(insights) + 1
                /\ SubSeq(insights', 1, Len(insights)) = insights
                /\ insights'[Len(insights')].user_id = ret'.user_id
                /\ insights'[Len(insights')].type = "income_volatility_alert"
                /\ insights'[Len(insights')].created_at = now
           ELSE insights' = insights ]_vars

\* a call whose probability is exactly 0.35 has persisted its alert
C6_Witness ==
    /\ RiskReturned
    /\ ret.out.value.unrounded = 35000
    /\ \E i \in DOMAIN insights :
          /\ insights[i].user_id = ret.user_id
          /\ insights[i].type = "income_volatility_alert"
          /\ insights[i].created_at = now

\* C7: for a user with no account predict_payment_risk returns the structured
\* not-found result (it does not raise and the result holds no forecast) and
\* changes no collection.
C7_AccountNotFound ==
    [][ (/\ ret'.op = "predict_payment_risk"
         /\ ~accounts[ret'.user_id].exists)
        => /\ ret'.out = [ok |-> TRUE, value |-> [error |-> "Account not found"]]
           /\ UNCHANGED <<accounts, payments, transactions, insights, model_loaded,
                          questionnaires, label_encoder>> ]_vars

\* the not-found result was returned for a user who has scheduled payments
C7_Witness ==
    /\ ret.op = "predict_payment_risk"
    /\ ~accounts[ret.user_id].exists
    /\ ret.out.ok
    /\ ret.out.value = [error |-> "Account not found"]
    /\ PaymentsOf(ret.user_id) # <<>>

\* C8: for a user with no account update_buffer_for_user changes no stored
\* record and returns updated = false together with the computed new_buffer.
C8_NoAccountNotUpdated ==
    [][ (/\ ret'.op = "update_buffer_for_user"
         /\ ~accounts[ret'.user_id].exists)
        => /\ ret'.out.ok
           /\ ret'.out.value.updated = FALSE
           /\ UNCHANGED <<accounts, payments, transactions, insights>> ]_vars

\* C27: update_buffer_for_user returns updated = true if and only if the user
\* has an account, and with an account the stored buffer afterwards is the
\* returned new_buffer, also on a second call with the same payments.
C27_UpdatedIffAccount ==
    (ret.op = "update_buffer_for_user" /\ ret.out.ok)
        => /\ ret.out.value.updated <=> accounts[ret.user_id].exists
           /\ accounts[ret.user_id].exists
                 => accounts[ret.user_id].buffer = ret.out.value.new_buffer

----------------------------------------------------------------------------
(* Properties of the buffer calculator, checked under SpecBuffer *)

BufferReturned == ret.op = "calculate_weekly_buffer"

\* the annual rule of the design: the first occurrence, moved to this year,
\* lies 0 to 7 days after today
AnnualDueByDesign(first_date, today) ==
    /\ ValidDate(Date(today.year, first_date.month, first_date.day))
    /\ DayNumber(Date(today.year, first_date.month, first_date.day)) - DayNumber(today)
          \in 0..7

\* the monthly rule written out on d = first.day - today.day, which lies in
\* -30..30: d mod 30 is d, d + 30 or d - 30
MonthlyDueByDesign(first_date, today) ==
    LET d == first_date.day - today.day
    IN  \/ 0 <= d /\ d <= 7
        \/ 0 <= d + 30 /\ d + 30 <= 7
        \/ d = 30

RECURSIVE SumDueByDesign(_, _)
SumDueByDesign(ps, today) ==
    IF ps = <<>> THEN 0
    ELSE LET p == Head(ps)
             due == \/ p.occurrence = "weekly"
                    \/ p.occurrence = "monthly" /\ MonthlyDueByDesign(p.firstdate, today)
                    \/ p.occurrence = "annual" /\ AnnualDueByDesign(p.firstdate, today)
         IN  (IF due THEN p.amount ELSE 0) + SumDueByDesign(Tail(ps), today)

AllDatesValid(ps) == \A i \in DOMAIN ps : ValidDate(ps[i].firstdate)

\* C9: calculate_weekly_buffer returns the sum, rounded to 2 decimals, of the
\* amounts of exactly those scheduled payments of the user (here with a
\* firstdate that is a date) that the recurrence rule marks due: each counted
\* once, weekly ones always, unknown occurrence tags never and without error.
C9_SumOfDuePayments ==
    (BufferReturned /\ AllDatesValid(PaymentsOf(ret.user_id)))
        => /\ ret.out.ok
           /\ ret.out.value = Round2(SumDueByDesign(PaymentsOf(ret.user_id), Today(now)))

\* C10: a monthly scheduled payment is included in the buffer if and only if
\* (first_occurrence.day - today.day) mod 30 lies in [0, 7]: when all payments
\* of the user are monthly, the buffer is the rounded sum of those for which it
\* does.
C10_MonthlyRule ==
    (/\ BufferReturned
     /\ \A i \in DOMAIN PaymentsOf(ret.user_id) :
           /\ PaymentsOf(ret.user_id)[i].occurrence = "monthly"
           /\ ValidDate(PaymentsOf(ret.user_id)[i].firstdate))
        => /\ ret.out.ok
           /\ ret.out.value = Round2(SumDueByDesign(PaymentsOf(ret.user_id), Today(now)))

\* a monthly payment first due on today's day of month is in the buffer
C10_Witness ==
    /\ BufferReturned
    /\ Len(PaymentsOf(ret.user_id)) = 1
    /\ PaymentsOf(ret.user_id)[1].occurrence = "monthly"
    /\ PaymentsOf(ret.user_id)[1].firstdate.day = Today(now).day
    /\ ret.out.ok
    /\ ret.out.value = Round2(PaymentsOf(ret.user_id)[1].amount)
    /\ ret.out.value > 0

\* C11: an annual scheduled payment is included in the buffer if and only if
\* its first-occurrence date, moved to today's year, lies 0 to 7 days after
\* today (no wrap to next year): when all payments of the user are annual, the
\* call returns the rounded sum of those for which it does.
C11_AnnualRule ==
    (/\ BufferReturned
     /\ PaymentsOf(ret.user_id) # <<>>
     /\ \A i \in DOMAIN PaymentsOf(ret.user_id) :
           /\ PaymentsOf(ret.user_id)[i].occurrence = "annual"
           /\ ValidDate(PaymentsOf(ret.user_id)[i].firstdate))
        => /\ ret.out.ok
           /\ ret.out.value = Round2(SumDueByDesign(PaymentsOf(ret.user_id), Today(now)))

----------------------------------------------------------------------------
(* Property of the concurrent evaluations, checked under SpecConc *)

\* C2: at most one insight per dedup window under concurrency.  No two
\* buffer_breach (or income_volatility_alert) insights of one user are 24 hours
\* or less apart, whatever the interleaving of create_transaction's
\* check_balance_risk with the one of the scheduler's sweep.
C2_AtMostOnePerWindow ==
    \A i, j \in DOMAIN insights :
        (/\ i < j
         /\ insights[i].user_id = insights[j].user_id
         /\ insights[i].type = insights[j].type
         /\ insights[i].type \in {"buffer_breach", "income_volatility_alert"})
        => insights[j].created_at - insights[i].created_at > 24

\* C25: calculate_weekly_buffer returns a number and never raises for
\* scheduled payments that ScheduledPaymentModel accepts: occurrence weekly,
\* monthly or annual and a firstdate of the form YYYY-MM-DD, annual payments
\* and a firstdate of 29 February included.
C25_NeverRaises ==
    (/\ BufferReturned
     /\ \A i \in DOMAIN PaymentsOf(ret.user_id) :
           PaymentsOf(ret.user_id)[i].occurrence \in {"weekly", "monthly", "annual"})
        => ret.out.ok

----------------------------------------------------------------------------
(* Properties of the forecaster, checked under SpecForecast *)

\* the last call is a predict_weekly_income
ForecastReturned == ret.op = "predict_weekly_income"

\* C12: every result returned by predict_weekly_income has confidence_5th <=
\* confidence_50th <= confidence_95th, in model mode, in the history-based
\* fallback and in the fixed-default branch, for every deposit history the
\* stores can hold.
C12_OrderedBounds ==
    ForecastReturned =>
        /\ ret.out.ok
        /\ ret.out.value.confidence_5th <= ret.out.value.confidence_50th
        /\ ret.out.value.confidence_50th <= ret.out.value.confidence_95th

\* the deposits of the user's account dated in the last 30 days
DepositsInLast30Days(user_id) ==
    {i \in DOMAIN transactions :
        /\ transactions[i].acct_id = user_id
        /\ transactions[i].type = "deposit"
        /\ transactions[i].datetime >= now - 24 * 30}

RECURSIVE AmountsOver(_)
AmountsOver(S) ==
    IF S = {} THEN 0
    ELSE LET i == CHOOSE i \in S : TRUE
         IN  transactions[i].amount + AmountsOver(S \ {i})

\* C13: once the model failed to load, every predict_weekly_income call runs
\* in fallback mode and leaves the flag as it is: model_available = false and
\* uncertainty 0.3; with an account and at least one deposit in the last 30
\* days, daily average = mean(amounts), weekly total = 7 * mean and bounds =
\* weekly total * {0.7, 1.0, 1.3}; otherwise exactly 3000 / 428 / 2100 / 3000 /
\* 3900.
C13_FallbackMode ==
    [][ (ret'.op = "predict_weekly_income" /\ ~model_loaded)
        => /\ model_loaded' = FALSE
           /\ ret'.out.ok
           /\ LET f == ret'.out.value
                  D == DepositsInLast30Days(ret'.user_id)
              IN  /\ f.model_available = FALSE
                  /\ f.uncertainty = 300
                  /\ IF accounts[ret'.user_id].exists /\ D # {}
                     THEN /\ Cardinality(D) * f.predicted_daily_avg = AmountsOver(D)
                          /\ f.predicted_weekly_total = 7 * f.predicted_daily_avg
                          /\ 10 * f.confidence_5th = 7 * f.predicted_weekly_total
                          /\ f.confidence_50th = f.predicted_weekly_total
                          /\ 10 * f.confidence_95th = 13 * f.predicted_weekly_total
                     ELSE /\ f.predicted_weekly_total = 3000000
                          /\ f.predicted_daily_avg = 428000
                          /\ f.confidence_5th = 2100000
                          /\ f.confidence_50th = 3000000
                          /\ f.confidence_95th = 3900000 ]_vars

\* a fallback forecast from two deposits, 120 made yesterday and 240 made
\* exactly 30 days ago: daily average 180, weekly total 1260
C13_Witness ==
    /\ ForecastReturned
    /\ ~model_loaded
    /\ Cardinality(DepositsInLast30Days(ret.user_id)) = 2
    /\ ret.out.value.predicted_daily_avg = 180000
    /\ ret.out.value.predicted_weekly_total = 1260000
    /\ ret.out.value.confidence_5th = 882000
    /\ ret.out.value.confidence_95th = 1638000

\* C14: in model mode an exception raised by feature preparation or inference
\* is caught inside predict_weekly_income: the call returns, and whenever it
\* did not return the ensemble's forecast it returned the fixed defaults (3000
\* / 428 / 2100 / 3000 / 3900, uncertainty 0.3, model_available = false)
\* annotated with the error, which is the one feature preparation raised if it
\* raised; deposit history makes no difference.
C14_ExceptionCaught ==
    (ForecastReturned /\ model_loaded)
        => /\ ret.out.ok
           /\ ~prepare_features(ret.user_id).ok
                 => /\ ret.out.value.model_available = FALSE
                    /\ ret.out.value.error = prepare_features(ret.user_id).raised
           /\ ret.out.value.model_available = FALSE
                 => /\ ret.out.value.predicted_weekly_total = 3000000
                    /\ ret.out.value.predicted_daily_avg = 428000
                    /\ ret.out.value.confidence_5th = 2100000
                    /\ ret.out.value.confidence_50th = 3000000
                    /\ ret.out.value.confidence_95th = 3900000
                    /\ ret.out.value.uncertainty = 300
                    /\ ret.out.value.error # ""

\* feature preparation raised ValueError for a user with deposits in the last
\* 30 days, and the call returned the annotated defaults
C14_Witness ==
    /\ ForecastReturned
    /\ model_loaded
    /\ DepositsInLast30Days(ret.user_id) # {}
    /\ ~prepare_features(ret.user_id).ok
    /\ ret.out.ok
    /\ ret.out.value.predicted_weekly_total = 3000000
    /\ ret.out.value.error = "ValueError"

\* C15: when the archetype of the user is not a class of the trained encoder,
\* the prediction surfaces as a failure: predict_payment_risk does not return a
\* risk classification computed from a default forecast.
C15_SkewSurfaces ==
    (/\ ret.op = "predict_payment_risk"
     /\ model_loaded
     /\ accounts[ret.user_id].exists
     /\ \A i \in DOMAIN label_encoder : label_encoder[i] # get_user_archetype(ret.user_id))
        => ~(ret.out.ok /\ "risk_level" \in DOMAIN ret.out.value)

\* the keyword groups in their order of precedence
KeywordGroups ==
    << <<"food_delivery_rider", {Keyword.delivery, Keyword.swiggy, Keyword.zomato}>>,
       <<"cab_driver", {Keyword.cab, Keyword.uber, Keyword.ola}>>,
       <<"freelancer", {Keyword.freelanc, Keyword.design}>>,
       <<"part_time_laborer", {Keyword.labor, Keyword.construction}>>,
       <<"shop_assistant", {Keyword.shop, Keyword.retail}>> >>

\* the groups of which the text, in lower case, contains a keyword
GroupsIn(text) ==
    {g \in DOMAIN KeywordGroups : \E word \in KeywordGroups[g][2] : In(word, Lower(text))}

\* C16: get_user_archetype returns one of the five archetypes: that of the
\* earliest keyword group of which the first answer contains a keyword,
\* wherever in the text, and food_delivery_rider when there is no
\* questionnaire, no or an empty first answer, or no keyword in it.
C16_ArchetypeByPrecedence ==
    ret.op = "get_user_archetype" =>
        LET q == questionnaires[ret.user_id]
            G == IF q.exists /\ q.has_a1 THEN GroupsIn(q.a1) ELSE {}
        IN  /\ ret.out.ok
            /\ ret.out.value \in Archetypes
            /\ ret.out.value =
                  IF G = {} THEN "food_delivery_rider"
                  ELSE KeywordGroups[CHOOSE g \in G : \A h \in G : g <= h][1]

\* an answer that names a cab keyword before a delivery keyword is classified
\* food_delivery_rider
C16_Witness ==
    /\ ret.op = "get_user_archetype"
    /\ questionnaires[ret.user_id].exists
    /\ questionnaires[ret.user_id].has_a1
    /\ GroupsIn(questionnaires[ret.user_id].a1) = {1, 2}
    /\ In(Keyword.uber, Lower(SubSeq(questionnaires[ret.user_id].a1, 1, 4)))
    /\ ret.out.value = "food_delivery_rider"

\* C26: predict_payment_risk persists an income_volatility_alert only when
\* the risk tier it computed is critical, high or medium, and with that tier
\* as priority; for the tiers low and minimal it persists none, whatever the
\* uncertainty of the forecast.
C26_AlertOnlyForRiskTiers ==
    [][(ret'.op = "predict_payment_risk" /\ Len(insights') > Len(insights))
          => /\ ret'.out.ok
             /\ ret'.out.value.risk_level \in {"critical", "high", "medium"}
             /\ insights'[Len(insights')].type = "income_volatility_alert"
             /\ insights'[Len(insights')].priority = ret'.out.value.risk_level]_vars

----------------------------------------------------------------------------
(* Properties of the insight checks, checked under SpecEngine *)

\* the user has a buffer_breach insight created in the last 24 hours
RecentBreach(user_id) ==
    \E i \in DOMAIN insights :
        /\ insights[i].user_id = user_id
        /\ insights[i].type = "buffer_breach"
        /\ insights[i].created_at >= now - 24

\* C17: check_balance_risk, for a user with an account and no buffer_breach
\* insight in the last 24 hours, persists exactly one buffer_breach insight,
\* of priority critical when balance < 0.5 * buffer, high when
\* 0.5 * buffer <= balance < buffer, medium when
\* buffer <= balance < 1.5 * buffer, and persists nothing when
\* balance >= 1.5 * buffer.
C17_BreachTiers ==
    [][\A user_id \in Users :
          (/\ ret'.op = "check_balance_risk"
           /\ ret'.user_id = user_id
           /\ accounts[user_id].exists
           /\ ~RecentBreach(user_id))
             => LET balance == accounts[user_id].balance
                    buffer == accounts[user_id].buffer
                    tier == IF 2 * balance < buffer THEN "critical"
                            ELSE IF buffer <= 2 * balance /\ balance < buffer THEN "high"
                            ELSE IF buffer <= balance /\ 2 * balance < 3 * buffer
                                 THEN "medium"
                            ELSE "none"
                IN  IF tier = "none" THEN insights' = insights
                    ELSE /\ Len(insights') = Len(insights) + 1
                         /\ SubSeq(insights', 1, Len(insights)) = insights
                         /\ insights'[Len(insights')].user_id = user_id
                         /\ insights'[Len(insights')].type = "buffer_breach"
                         /\ insights'[Len(insights')].priority = tier]_vars

\* balance 200 against buffer 500: the check has persisted one critical insight
C17_Witness ==
    /\ ret.op = "check_balance_risk"
    /\ ret.user_id = "u1"
    /\ accounts["u1"] = Account(200000, 500000)
    /\ Len(insights) = 1
    /\ insights[1].type = "buffer_breach"
    /\ insights[1].priority = "critical"
    /\ insights[1].created_at = now

\* the payment is one check_upcoming_payments considers
Considered(payment, user_id) ==
    /\ payment.user_id = user_id
    /\ payment.importance = "high"
    /\ payment.occurrence \in {"monthly", "weekly"}

\* days-until as the design computes it
DaysUntilByDesign(payment) ==
    IF payment.occurrence = "monthly"
    THEN (payment.firstdate.day - Today(now).day) % 30
    ELSE (WeekdayOfDay(DayNumber(payment.firstdate)) - WeekdayOfDay(now \div 24)) % 7

\* the message is that of a reminder for the label
References(message, particulars) ==
    /\ Len(message) >= Len(particulars) + 2
    /\ SubSeq(message, 1, Len(particulars) + 2) = <<"Your">> \o particulars \o <<"payment">>

\* the user has a payment_due_soon insight for the label, created in the last
\* 48 hours
RecentReminderOf(user_id, particulars) ==
    \E j \in DOMAIN insights :
        /\ insights[j].user_id = user_id
        /\ insights[j].type = "payment_due_soon"
        /\ References(insights[j].message, particulars)
        /\ insights[j].created_at >= now - 48

\* C18: check_upcoming_payments considers only the user's payments of high
\* importance that are monthly or weekly; it persists a payment_due_soon
\* insight for such a payment if and only if 1 <= days-until <= 3, with
\* days-until (first.day - today.day) mod 30 or
\* (first.weekday - today.weekday) mod 7, and no payment_due_soon insight
\* referencing the same label was created for the user in the last 48 hours.
C18_DueSoonRule ==
    [][\A user_id \in Users :
          (ret'.op = "check_upcoming_payments" /\ ret'.user_id = user_id)
             => /\ Len(insights') >= Len(insights)
                /\ SubSeq(insights', 1, Len(insights)) = insights
                /\ \A k \in (Len(insights) + 1)..Len(insights') :
                      /\ insights'[k].user_id = user_id
                      /\ insights'[k].type = "payment_due_soon"
                      /\ \E i \in DOMAIN payments :
                            /\ Considered(payments[i], user_id)
                            /\ References(insights'[k].message, payments[i].particulars)
                /\ \A i \in DOMAIN payments :
                      Considered(payments[i], user_id)
                        => ((\E k \in (Len(insights) + 1)..Len(insights') :
                                References(insights'[k].message, payments[i].particulars))
                            <=> (/\ 1 <= DaysUntilByDesign(payments[i])
                                 /\ DaysUntilByDesign(payments[i]) <= 3
                                 /\ ~RecentReminderOf(user_id, payments[i].particulars)))]_vars

\* the number of payments of the user that check_upcoming_payments considers
ConsideredCount(user_id) ==
    Cardinality({i \in DOMAIN payments : Considered(payments[i], user_id)})

\* C19 as stated: each of predict_payment_risk, check_balance_risk and
\* check_upcoming_payments persists at most one insight per invocation.
C19_AtMostOnePerInvocation ==
    [][ret'.op \in {"predict_payment_risk", "check_balance_risk", "check_upcoming_payments"}
          => Len(insights') <= Len(insights) + 1]_vars

\* C19: predict_payment_risk and check_balance_risk persist at most one
\* insight per invocation; check_upcoming_payments persists at most one
\* insight for each monthly or weekly payment of high importance the user has.
C19_AtMostOnePerCheck ==
    [][/\ ret'.op \in {"predict_payment_risk", "check_balance_risk"}
          => Len(insights') <= Len(insights) + 1
       /\ ret'.op = "check_upcoming_payments"
          => /\ Len(insights') <= Len(insights) + ConsideredCount(ret'.user_id)
             /\ \A i \in DOMAIN payments :
                   Cardinality({k \in (Len(insights) + 1)..Len(insights') :
                                   References(insights'[k].message,
                                              payments[i].particulars)}) <= 1]_vars

\* one call of check_upcoming_payments has persisted two reminders
C19_Witness ==
    /\ ret.op = "check_upcoming_payments"
    /\ Len(insights) = 2
    /\ \A k \in 1..2 : /\ insights[k].type = "payment_due_soon"
                        /\ insights[k].created_at = now
                        /\ insights[k].user_id = ret.user_id
    /\ insights[1].message # insights[2].message

\* the calls of the engine
EngineOps ==
    {"calculate_weekly_buffer", "predict_payment_risk", "update_buffer_for_user",
     "check_balance_risk", "check_upcoming_payments", "update_all_buffers",
     "reminder_job"}

\* C20: no call of the engine modifies or deletes an insight that exists, and
\* every insight it creates has read = false; the read flag of an insight
\* changes only through mark_insight_read, which sets it on the insight of
\* the given id and changes nothing else.
C20_AppendOnly ==
    [][/\ ret'.op \in EngineOps
          => /\ Len(insights') >= Len(insights)
             /\ SubSeq(insights', 1, Len(insights)) = insights
             /\ \A k \in (Len(insights) + 1)..Len(insights') : insights'[k].read = FALSE
       /\ ret'.op = "mark_insight_read"
          => /\ DOMAIN insights' = DOMAIN insights
             /\ \A i \in DOMAIN insights :
                   IF i = ret'.insight_id
                   THEN insights'[i] = [insights[i] EXCEPT !.read = TRUE]
                   ELSE insights'[i] = insights[i]
             /\ UNCHANGED <<now, accounts, payments, transactions>>
       /\ (\E i \in DOMAIN insights : i \in DOMAIN insights' /\ insights'[i] # insights[i])
          => ret'.op = "mark_insight_read"]_vars

\* the engine has appended an unread insight behind one that was marked read
C20_Witness ==
    /\ ret.op \in EngineOps
    /\ Len(insights) = 2
    /\ insights[1].read
    /\ ~insights[2].read
    /\ insights[2].created_at = now

\* C24: for every payment of high importance, calls of check_upcoming_payments
\* less than 48 hours apart, made directly or by the daily and the 6-hourly
\* job, persist one payment_due_soon insight for that payment in total: no
\* two reminders of a user for the same label are less than 48 hours apart.
C24_ReminderIdempotence ==
    \A p \in DOMAIN payments : \A i, j \in DOMAIN insights :
        (/\ i < j
         /\ insights[i].user_id = payments[p].user_id
         /\ insights[j].user_id = payments[p].user_id
         /\ insights[i].type = "payment_due_soon"
         /\ insights[j].type = "payment_due_soon"
         /\ References(insights[i].message, payments[p].particulars)
         /\ References(insights[j].message, payments[p].particulars))
            => insights[j].created_at - insights[i].created_at >= 48

\* C28: reminders of different payments do not interfere: after one call of
\* check_upcoming_payments with no insights stored before, every payment of
\* high importance of the user that is due in 1..3 days has a reminder of its
\* own, also when its label is contained in the label of another payment.
C28_OwnReminder ==
    [][(ret'.op = "check_upcoming_payments" /\ insights = <<>>)
          => \A i \in DOMAIN payments :
                (/\ Considered(payments[i], ret'.user_id)
                 /\ 1 <= DaysUntilByDesign(payments[i])
                 /\ DaysUntilByDesign(payments[i]) <= 3)
                   => \E k \in DOMAIN insights' :
                         /\ insights'[k].user_id = ret'.user_id
                         /\ insights'[k].type = "payment_due_soon"
                         /\ References(insights'[k].message,
                                       payments[i].particulars)]_vars

----------------------------------------------------------------------------
(* Properties of the calls made for one user, checked under SpecUsers *)

\* the calls evaluated for one user
UserOps ==
    {"calculate_weekly_buffer", "predict_payment_risk", "update_buffer_for_user",
     "check_balance_risk", "check_upcoming_payments"}

\* the insights of the user, in the order of the collection
OwnInsights(user_id) == SelectSeq(insights, LAMBDA i : i.user_id = user_id)

\* what the call would append if the collection held the user's insights only
AppendedAlone(op, user_id) ==
    LET own == OwnInsights(user_id)
        after == IF op = "check_balance_risk"
                 THEN {check_balance_risk(accounts, own, user_id, now)}
                 ELSE IF op = "check_upcoming_payments"
                 THEN {check_upcoming_payments(own, user_id, now).insights}
                 ELSE IF op = "predict_payment_risk"
                 THEN {r.insights : r \in predict_payment_risk(accounts, own, user_id, now)}
                 ELSE {own}
    IN  {SubSeq(a, Len(own) + 1, Len(a)) : a \in after}

\* C21: a call evaluated for user U leaves the records of every other user
\* unchanged and leaves U's balance unchanged; the only account field written
\* is U's buffer, by update_buffer_for_user; every insight inserted carries
\* user_id U; and what is inserted for U is what would be inserted if the
\* insights of the other users did not exist.
C21_PerUserFrame ==
    [][ret'.op \in UserOps
          => LET U == ret'.user_id
             IN  /\ \A V \in Users \ {U} : accounts'[V] = accounts[V]
                 /\ accounts'[U].exists = accounts[U].exists
                 /\ accounts[U].exists => accounts'[U].balance = accounts[U].balance
                 /\ ret'.op # "update_buffer_for_user" => accounts' = accounts
                 /\ UNCHANGED <<payments, transactions>>
                 /\ Len(insights') >= Len(insights)
                 /\ SubSeq(insights', 1, Len(insights)) = insights
                 /\ \A k \in (Len(insights) + 1)..Len(insights') :
                       insights'[k].user_id = U
                 /\ SubSeq(insights', Len(insights) + 1, Len(insights'))
                       \in AppendedAlone(ret'.op, U)]_vars

\* a buffer_breach insight was persisted for u1 although u2 has one that is
\* less than 24 hours old, and u2's account is as it was
C21_Witness ==
    /\ ret.op = "check_balance_risk"
    /\ ret.user_id = "u1"
    /\ Len(insights) = 2
    /\ insights[1].user_id = "u2"
    /\ insights[1].type = "buffer_breach"
    /\ insights[2].user_id = "u1"
    /\ insights[2].type = "buffer_breach"
    /\ insights[2].created_at = now
    /\ insights[1].created_at >= now - 24
    /\ accounts["u2"].balance = 600000

----------------------------------------------------------------------------
(* Properties of create_transaction, checked under SpecTx *)

\* C22: the balance of an account is never negative, after any sequence or
\* interleaving of create_transaction requests, two concurrent withdrawals on
\* the same account included.
C22_BalanceNeverNegative ==
    \A user_id \in Users : accounts[user_id].exists => accounts[user_id].balance >= 0

----------------------------------------------------------------------------
(* Properties of the feature builder, checked under SpecFeatures *)

\* the amounts of the user's deposits of the last 30 days, the most recent
\* first, and of these the 30 most recent
MostRecentAmounts(user_id) ==
    LET H == SortedByDatetime(RecentDeposits(user_id, now - 24 * 30))
        n == IF Len(H) <= 30 THEN Len(H) ELSE 30
    IN  [i \in 1..n |-> H[i].amount]

\* C23: prepare_features uses the 30 most recent deposits: income_lag_1 is the
\* most recent amount, income_lag_3 and income_lag_7 are the 3rd and 7th most
\* recent amounts (the most recent when the history is shorter), the 7- and
\* 14-entry statistics are taken over the most recent 7 and 14 entries, and
\* with no history every derived statistic is 0.
C23_MostRecentWindow ==
    (ret.op = "prepare_features" /\ ret.out.ok)
       => LET a == MostRecentAmounts(ret.user_id)
              f == ret.out.value.income
              r7 == Slice(a, 7)
              r14 == Slice(a, 14)
          IN  IF Len(a) = 0
              THEN \A name \in DOMAIN f : f[name] = 0
              ELSE /\ f.income_lag_1 = a[1]
                   /\ f.income_lag_3 = IF Len(a) >= 3 THEN a[3] ELSE a[1]
                   /\ f.income_lag_7 = IF Len(a) >= 7 THEN a[7] ELSE a[1]
                   /\ f.income_rolling_mean_7 = SumSeq(r7) \div Len(r7)
                   /\ f.income_rolling_max_7 = MaxSeq(r7)
                   /\ f.income_rolling_min_7 = MinSeq(r7)
                   /\ f.income_rolling_mean_14 = SumSeq(r14) \div Len(r14)
                   /\ f.zero_income_count_7 = Cardinality({i \in DOMAIN r7 : r7[i] = 0})

----------------------------------------------------------------------------
(* Properties of the scheduled jobs, checked under SpecSched *)

\* C29: in the daily and in the 6-hourly sweep an exception raised for one
\* user neither keeps the other users of the sweep from being evaluated nor
\* stops the scheduler loop: after a sweep the scheduler is alive, and every
\* user whose payments can be evaluated has the reminders that are due.
C29_FaultIsolation ==
    [][ret'.op \in {"update_all_buffers", "reminder_job"}
          => /\ jobs'.alive
             /\ \A i \in DOMAIN payments :
                   (/\ Considered(payments[i], payments[i].user_id)
                    /\ AllDatesValid(PaymentsOf(payments[i].user_id))
                    /\ \A j \in DOMAIN payments :
                          payments[j].user_id = payments[i].user_id
                             => payments[j].occurrence # "annual"
                    /\ 1 <= DaysUntilByDesign(payments[i])
                    /\ DaysUntilByDesign(payments[i]) <= 3)
                      => \E k \in DOMAIN insights' :
                            /\ insights'[k].user_id = payments[i].user_id
                            /\ insights'[k].type = "payment_due_soon"
                            /\ References(insights'[k].message,
                                          payments[i].particulars)
                            /\ insights'[k].created_at >= now - 48]_vars

----------------------------------------------------------------------------
(* Properties of the buffer-breach dedup, checked under SpecBreach *)

\* C30: during the 24 hours after a buffer_breach insight was created for a
\* user no call of check_balance_risk persists another one for that user,
\* whatever the balance has become and whether or not the insight was marked
\* read; once the user has no buffer_breach insight younger than 24 hours,
\* the next call in a breach state persists one.
C30_DedupIgnoresSeverityAndRead ==
    [][\A user_id \in Users :
          (ret'.op = "check_balance_risk" /\ ret'.user_id = user_id)
             => /\ RecentBreach(user_id) => insights' = insights
                /\ (/\ ~RecentBreach(user_id)
                    /\ accounts[user_id].exists
                    /\ 2 * accounts[user_id].balance < 3 * accounts[user_id].buffer)
                      => /\ Len(insights') = Len(insights) + 1
                         /\ SubSeq(insights', 1, Len(insights)) = insights
                         /\ insights'[Len(insights')].user_id = user_id
                         /\ insights'[Len(insights')].type = "buffer_breach"
                         /\ insights'[Len(insights')].created_at = now]_vars

\* a medium insight that was marked read 13 hours ago is the only one,
\* although the balance is now below half the buffer and the check has run
C30_Witness ==
    /\ ret.op = "check_balance_risk"
    /\ ret.user_id = "u1"
    /\ 2 * accounts["u1"].balance < accounts["u1"].buffer
    /\ Len(insights) = 1
    /\ insights[1].type = "buffer_breach"
    /\ insights[1].priority = "medium"
    /\ insights[1].read
    /\ insights[1].created_at = now - 13

=============================================================================
